---- MODULE Spec2Model ----
(***************************************************************************)
(* Playback/queue state machine of the sporkbot voice bot.                 *)
(*                                                                         *)
(* One guild, its GuildState, the AudioTrack objects it has created, the   *)
(* voice client with the stream it plays, the temp folder and the          *)
(* TrackManager's active-file set.  Time is counted in ticks; there are    *)
(* TicksPerSecond ticks in a second, so a track position can fall between  *)
(* two whole seconds as the float positions of the source do.  The         *)
(* playback speed setting stays at its default of 100%.                    *)
(*                                                                         *)
(* The second half serves several guilds at once: MusicState with its      *)
(* three dicts, the GuildState objects by identity, a voice client per     *)
(* guild, the periodic cleanup sweep, the alone timer and the rate limit.  *)
(***************************************************************************)
EXTENDS Integers, Sequences, FiniteSets, TLC

\* ---------------------------------------------------------------- bounds
NumTracks == 3        \* AudioTrack objects ever created
MaxTime == 4          \* ticks the clock may advance
TicksPerSecond == 2   \* resolution of the clock
MaxPending == 1       \* fired callbacks / scheduled play_next not yet run
MaxSeeks == 1         \* seek handlers suspended in their sleep at once
MaxSeconds == 2       \* largest argument of a seek command, in seconds
MaxLoops == 3         \* largest argument of /loop
MaxBatch == 2         \* attachments in one message
MaxFileSize == 6      \* largest file offered to can_add_to_queue
ReapStep == 4         \* ticks the clock moves between TrackManager calls
MaxReapTime == 16     \* ticks the clock may advance between TrackManager calls
NumGuilds == 2        \* guilds the bot serves
MaxListeners == 1     \* users in the bot's voice channel
MaxGuildTracks == 2   \* AudioTrack objects ever created when several guilds are served
MaxWaiters == 1       \* on_voice_state_update handlers asleep for a guild
MaxSleepers == 2      \* the same, where users leave again while a handler sleeps
MaxDownloads == 2     \* play_next calls suspended in a download at once
MaxElapsed == 125     \* ticks the clock may advance while the rate limit is asked
MaxBurst == 5         \* ticks over which rate-limited actions follow one another

\* ------------------------------------------------------- configuration
max_queue_size == 6   \* config max_queue_size_mb, in size units
max_tracks == 2       \* config max_tracks_per_guild
cleanup_interval == 8 \* config cleanup_interval_minutes, in ticks
file_max_age == 8     \* config inactive_timeout_minutes, in ticks

\* ---------------------------------------------------------- None values
NoTrack == 0          \* current_track = None
NoPath == 0           \* downloaded_path = None
NoTime == 0           \* playback_start_time = None
NoLimit == 0          \* max_loops = None
NoFile == 0           \* path absent from the temp folder
Epoch == 20           \* time.time() when the bot starts

Tracks == 1..NumTracks

Min(a, b) == IF a <= b THEN a ELSE b
Max(a, b) == IF a >= b THEN a ELSE b

\* The attachment behind track t: its decoded duration (ticks) and byte size.
\* Of three attachments in a row the second is a sub-second clip and the third
\* lasts a whole number of seconds.
FileDuration(t) == IF t % 3 = 1 THEN 3 ELSE IF t % 3 = 2 THEN 1 ELSE 2
FileSize(t) == 1 + (t % 2)
\* sanitized filename joined to the temp folder, for the filename of track t
PathOf(t) == t

\* --------------------------------------------------------- AudioTrack
NewTrack ==
  [position |-> 0, duration |-> 0, downloaded_path |-> NoPath,
   playback_start_time |-> NoTime, paused_position |-> 0, is_paused |-> FALSE]

start_playback(tr, position, t) ==
  [tr EXCEPT !.position = position,
             !.playback_start_time = t - position,
             !.is_paused = FALSE]

pause_playback(tr, t) ==
  IF ~tr.is_paused /\ tr.playback_start_time # NoTime
  THEN [tr EXCEPT !.paused_position = t - tr.playback_start_time,
                  !.is_paused = TRUE]
  ELSE tr

resume_playback_stale(tr, t) ==
  IF tr.is_paused THEN [tr EXCEPT !.is_paused = FALSE] ELSE tr

resume_playback(tr, t) ==
  IF tr.is_paused
  THEN [tr EXCEPT !.playback_start_time = t - tr.paused_position,
                  !.is_paused = FALSE]
  ELSE tr

get_current_position(tr, t) ==
  IF tr.playback_start_time = NoTime THEN tr.position
  ELSE IF tr.is_paused THEN tr.paused_position
  ELSE Min(t - tr.playback_start_time, tr.duration)

\* cleanup(): the reset happens only when the file is still on disk
cleanup_track(tr, exists) ==
  IF tr.downloaded_path # NoPath /\ exists
  THEN [tr EXCEPT !.downloaded_path = NoPath, !.position = 0,
                  !.playback_start_time = NoTime, !.paused_position = 0,
                  !.is_paused = FALSE]
  ELSE tr

\* ------------------------------------------------------------- state
VARIABLES
  guild_state,    \* the GuildState of the guild
  tracks,         \* the AudioTrack objects, by identity
  n_created,      \* how many AudioTrack objects exist
  voice,          \* guild.voice_client and the stream it plays
  temp_files,     \* temp folder: path -> creation time, NoFile when absent
  active_files,   \* TrackManager._active_files
  last_cleanup,   \* TrackManager.last_cleanup
  settings,       \* guild_settings row of the database
  callbacks,      \* completion callbacks fired on the player thread, not yet run
  scheduled,      \* play_next coroutines handed to the event loop, not yet run
  seeks,          \* seek handlers suspended in asyncio.sleep(0.5)
  now,            \* time.time()
  last_op,        \* history: the handler that ran last, its input and outcome
  paused_at,      \* history: track and reported position at the last accepted pause
  plays,          \* history: streams play_next started, per track
  music_state,    \* MusicState: guild_states, alone_since and rate_limits
  objects,        \* the GuildState objects, by identity
  guilds,         \* per guild: voice client, channel members, settings row,
                  \* callbacks fired, coroutines scheduled, seeks and waiters asleep
  accepted_at,    \* history: per guild, when check_rate_limit last returned True
  downloads       \* play_next calls suspended in the download of their track

vars == <<guild_state, tracks, n_created, voice, temp_files, active_files,
          last_cleanup, settings, callbacks, scheduled, seeks, now, last_op,
          paused_at, plays, music_state, objects, guilds, accepted_at, downloads>>

\* what the bot keeps about several guilds at once
several == <<music_state, objects, guilds, accepted_at, downloads>>

NewGuildState ==
  [queue |-> <<>>, current_track |-> NoTrack, is_seeking |-> FALSE,
   loop_enabled |-> FALSE, loop_count |-> 0, max_loops |-> NoLimit]

NoVoice == [status |-> "none", after |-> "none", left |-> 0]

\* ------------------------------------------------------ several guilds
Guilds == 1..NumGuilds

\* identities of GuildState objects; NoState is a key the map does not hold
Objects == 1..NumGuilds
NoState == 0

\* GuildState(), constructed at time t
default_volume == 100

GuildState(t) ==
  [queue |-> <<>>, current_track |-> NoTrack, volume |-> default_volume,
   is_seeking |-> FALSE, last_activity |-> t, loop_enabled |-> FALSE,
   loop_count |-> 0, max_loops |-> NoLimit]

\* an identity no GuildState object has
Unused == GuildState(NoTime)

\* MusicState(): three empty dicts; NoTime is a key the dict does not hold
NewMusicState ==
  [guild_states |-> [g \in Guilds |-> NoState],
   alone_since |-> [g \in Guilds |-> NoTime],
   rate_limits |-> [g \in Guilds |-> NoTime]]

\* what Discord, the database and the event loop hold for a guild: listeners
\* are the users in the bot's voice channel, waiters the times at which the
\* on_voice_state_update handlers asleep for the guild began their sleep
NewGuild ==
  [voice |-> NoVoice, listeners |-> 0,
   settings |-> [autoplay |-> TRUE, autodisconnect |-> TRUE],
   callbacks |-> <<>>, scheduled |-> 0, seeks |-> <<>>, waiters |-> <<>>]

\* The part of the state a handler works on, with a log of what it did:
\* disc counts voice_client.disconnect() calls, started is the track a stream
\* was started for, downloaded the tracks download() was called on.  fault is
\* the place in play_next where a statement raises an exception nothing
\* expects, caught counts the exceptions the outermost handler caught, and
\* raised tells that an exception left the handler.  anchored lists the
\* tracks start_playback was called on, call by call.
NoFault == "none"
\* the path each track downloads to when no two attachments have the same
\* sanitized filename; SameName is the case in which all of them have
Distinct == [x \in Tracks |-> PathOf(x)]
SameName == [x \in Tracks |-> PathOf(1)]

World ==
  [gs |-> guild_state, tracks |-> tracks, voice |-> voice, files |-> temp_files,
   active |-> active_files, last_cleanup |-> last_cleanup, settings |-> settings,
   callbacks |-> callbacks, disc |-> 0, started |-> NoTrack, downloaded |-> {},
   fault |-> NoFault, caught |-> 0, raised |-> FALSE, anchored |-> <<>>,
   paths |-> Distinct]

is_connected_always(W) == TRUE

is_connected(W) == W.voice.status # "none"
is_playing(W) == W.voice.status = "playing"
is_paused(W) == W.voice.status = "paused"

\* VoiceClient.stop(): the player ends and its after callback fires
vc_stop(W) ==
  IF W.voice.status \in {"playing", "paused"}
  THEN [W EXCEPT !.voice = [status |-> "idle", after |-> "none", left |-> 0],
                 !.callbacks = Append(@, W.voice.after)]
  ELSE W

\* VoiceClient.disconnect(): stops the player and drops the connection
vc_disconnect(W) ==
  [vc_stop(W) EXCEPT !.voice = NoVoice, !.disc = @ + 1]

\* VoiceClient.play(source, after=cb); a paused player is replaced and never
\* reports completion
vc_play(W, cb, left) ==
  [W EXCEPT !.voice = [status |-> "playing", after |-> cb, left |-> left]]

mark_file_active(W, path) ==
  IF path # NoPath THEN [W EXCEPT !.active = @ \cup {path}] ELSE W

mark_file_inactive(W, path) ==
  IF path # NoPath THEN [W EXCEPT !.active = @ \ {path}] ELSE W

on_disk(W, path) == path # NoPath /\ W.files[path] # NoFile

\* AudioTrack.cleanup() on track c, with the file removal
cleanup(W, c) ==
  LET path == W.tracks[c].downloaded_path IN
  IF on_disk(W, path)
  THEN [W EXCEPT !.files[path] = NoFile,
                 !.tracks[c] = cleanup_track(W.tracks[c], TRUE)]
  ELSE [W EXCEPT !.tracks[c] = cleanup_track(W.tracks[c], FALSE)]

\* AudioTrack.download(): the path, made of the temp folder and the track's
\* sanitized filename (W.paths), is set first; the file and the metadata
\* exist only when the download succeeds, and a download that fails raises
\* after removing what it wrote
download(W, c, t, ok) ==
  IF ok
  THEN [W EXCEPT !.tracks[c].downloaded_path = W.paths[c],
                 !.tracks[c].duration = FileDuration(c),
                 !.files[W.paths[c]] = t,
                 !.downloaded = @ \cup {c}]
  ELSE [W EXCEPT !.tracks[c].downloaded_path = W.paths[c],
                 !.files[W.paths[c]] = NoFile,
                 !.downloaded = @ \cup {c}]

reapable_any(W, p, t) ==
  /\ W.files[p] # NoFile
  /\ t - W.files[p] > file_max_age

\* the reaper's test on one file
reapable(W, p, t) ==
  /\ W.files[p] # NoFile
  /\ p \notin W.active
  /\ t - W.files[p] > file_max_age

cleanup_temp_files(W, t) ==
  IF t - W.last_cleanup < cleanup_interval THEN W
  ELSE [W EXCEPT !.last_cleanup = t,
                 !.files = [p \in DOMAIN W.files |->
                              IF reapable(W, p, t) THEN NoFile ELSE W.files[p]]]

\* get_pcm_audio: the offset is clamped into [0, duration]; ffmpeg is given
\* -ss int(start_time), so the stream holds the audio from that whole second on
clamp_start(tr, start_time) == Max(0, Min(start_time, tr.duration))

stream_ticks(W, c, start_time) ==
  IF on_disk(W, W.tracks[c].downloaded_path)
  THEN W.tracks[c].duration
         - (clamp_start(W.tracks[c], start_time) \div TicksPerSecond) * TicksPerSecond
  ELSE 0

get_pcm_audio_unanchored(W, c, start_time, t) == W

get_pcm_audio(W, c, start_time, t) ==
  [W EXCEPT !.tracks[c] = start_playback(@, clamp_start(@, start_time), t),
            !.anchored = Append(@, c)]

\* ----------------------------------------------------------- play_next
loop_step_late(gs) ==
  IF gs.loop_enabled /\ gs.current_track # NoTrack
  THEN IF gs.max_loops # NoLimit
       THEN IF gs.loop_count >= gs.max_loops
            THEN [gs EXCEPT !.loop_enabled = FALSE, !.loop_count = 0,
                            !.max_loops = NoLimit]
            ELSE [gs EXCEPT !.loop_count = @ + 1,
                            !.queue = <<gs.current_track>> \o @]
       ELSE [gs EXCEPT !.queue = <<gs.current_track>> \o @]
  ELSE gs

loop_step_append(gs) ==
  IF gs.loop_enabled /\ gs.current_track # NoTrack
  THEN IF gs.max_loops # NoLimit
       THEN IF gs.loop_count + 1 >= gs.max_loops
            THEN [gs EXCEPT !.loop_enabled = FALSE, !.loop_count = 0,
                            !.max_loops = NoLimit]
            ELSE [gs EXCEPT !.loop_count = @ + 1,
                            !.queue = <<gs.current_track>> \o @]
       ELSE [gs EXCEPT !.queue = Append(@, gs.current_track)]
  ELSE gs

\* loop handling, before the current track is cleaned up
loop_step(gs) ==
  IF gs.loop_enabled /\ gs.current_track # NoTrack
  THEN IF gs.max_loops # NoLimit
       THEN IF gs.loop_count + 1 >= gs.max_loops
            THEN [gs EXCEPT !.loop_enabled = FALSE, !.loop_count = 0,
                            !.max_loops = NoLimit]
            ELSE [gs EXCEPT !.loop_count = @ + 1,
                            !.queue = <<gs.current_track>> \o @]
       ELSE [gs EXCEPT !.queue = <<gs.current_track>> \o @]
  ELSE gs

\* mark the current track's file inactive, cleanup() it, clear the reference
release_current(W) ==
  LET c == W.gs.current_track IN
  IF c # NoTrack /\ ~W.gs.is_seeking
  THEN [cleanup(mark_file_inactive(W, W.tracks[c].downloaded_path), c)
          EXCEPT !.gs.current_track = NoTrack]
  ELSE W

empty_queue_policy_always(W) ==
  IF is_connected(W) THEN vc_disconnect(W) ELSE W

\* the empty-queue branch
empty_queue_policy(W) ==
  IF W.settings.autodisconnect /\ is_connected(W) THEN vc_disconnect(W) ELSE W

\* the except branches: mark inactive and drop the reference, no cleanup()
discard_current(W) ==
  LET c == W.gs.current_track IN
  [(IF c # NoTrack THEN mark_file_inactive(W, W.tracks[c].downloaded_path) ELSE W)
     EXCEPT !.gs.current_track = NoTrack]

pop_next_last(W) ==
  LET c == W.gs.queue[Len(W.gs.queue)] IN
  mark_file_active([W EXCEPT !.gs.current_track = c,
                             !.gs.queue = SubSeq(@, 1, Len(@) - 1)],
                   W.tracks[c].downloaded_path)

\* pop the head into current_track and mark its file active
pop_next(W) ==
  LET c == Head(W.gs.queue) IN
  mark_file_active([W EXCEPT !.gs.current_track = c, !.gs.queue = Tail(@)],
                   W.tracks[c].downloaded_path)

returns_at_once_unless_forced(gs, force_play) == gs.is_seeking /\ ~force_play

\* the guard at the top of play_next
returns_at_once(gs, force_play) == gs.is_seeking

autoplay_skips_never(W, force_play) == FALSE

\* the autoplay check, made once the queue is known not to be empty
autoplay_skips(W, force_play) == ~force_play /\ ~W.settings.autoplay

retry_force_default(force_play) == FALSE

\* the force_play argument of the call that follows a failed track
retry_force(force_play) == force_play

\* the statements of play_next outside its inner try blocks at which
\* W.fault can raise: the loop handling, the release of the current track and
\* the test of the queue
Faults == {"loop", "release", "queue"}

outer_except_reraises(W) == [W EXCEPT !.raised = TRUE]

\* the outermost except of play_next: mark inactive, cleanup(), clear; the
\* exception is logged and goes no further
outer_except(W) ==
  LET c == W.gs.current_track IN
  [(IF c # NoTrack
    THEN [cleanup(mark_file_inactive(W, W.tracks[c].downloaded_path), c)
            EXCEPT !.gs.current_track = NoTrack]
    ELSE W) EXCEPT !.caught = @ + 1]

\* play_next(guild, force_play) at time t.  dfail and sfail are the tracks whose
\* download, and whose decode stream, fail in this call.
RECURSIVE play_next(_, _, _, _, _)
play_next(W, force_play, t, dfail, sfail) ==
  IF returns_at_once(W.gs, force_play) THEN W
  ELSE IF W.fault = "loop" THEN outer_except(W)
  ELSE IF W.fault = "release" THEN outer_except([W EXCEPT !.gs = loop_step(W.gs)])
  ELSE
    LET W1 == release_current([W EXCEPT !.gs = loop_step(W.gs)]) IN
    IF W.fault = "queue" THEN outer_except(W1)
    ELSE IF W1.gs.queue = <<>> THEN empty_queue_policy(W1)
    ELSE IF autoplay_skips(W1, force_play) THEN W1
    ELSE IF ~is_connected(W1) THEN W1
    ELSE
      LET W2 == pop_next(W1)
          c == W2.gs.current_track
          need == W2.tracks[c].downloaded_path = NoPath
          W3 == IF need THEN download(W2, c, t, c \notin dfail) ELSE W2
      IN
      IF need /\ c \in dfail
      THEN play_next(discard_current(W3), retry_force(force_play), t, dfail, sfail)
      ELSE
        LET W4 == cleanup_temp_files(W3, t) IN
        IF c \in sfail
        THEN play_next(discard_current(W4), retry_force(force_play), t, dfail, sfail)
        ELSE
          LET left == stream_ticks(W4, c, W4.tracks[c].position)
              W5 == get_pcm_audio(W4, c, W4.tracks[c].position, t)
          IN
          IF is_playing(W5)
          THEN play_next(discard_current(W5), retry_force(force_play), t, dfail, sfail)
          ELSE [vc_play(W5, "after_playing", left) EXCEPT !.started = c]

\* play_next as the event loop runs it.  The call runs without a break up to
\* the await of AudioTrack.download() (download has set the track's path by
\* then and waits for the response, the file not yet opened), where the event
\* loop may run other handlers of the guild; W.downloaded tells that the call
\* is suspended there.  play_next_resumes is the rest of the call, from the
\* statement after the await on: it reads guild_state.current_track again,
\* whatever that is by then.  get_pcm_audio raises on None, and
\* voice_client.play raises when a stream is playing or the client is gone.
RECURSIVE play_next_awaits(_, _, _)
RECURSIVE play_next_resumes(_, _, _)
play_next_awaits(W, force_play, t) ==
  IF returns_at_once(W.gs, force_play) THEN W
  ELSE
    LET W1 == release_current([W EXCEPT !.gs = loop_step(W.gs)]) IN
    IF W1.gs.queue = <<>> THEN empty_queue_policy(W1)
    ELSE IF autoplay_skips(W1, force_play) THEN W1
    ELSE IF ~is_connected(W1) THEN W1
    ELSE
      LET W2 == pop_next(W1)
          c == W2.gs.current_track
      IN
      IF W2.tracks[c].downloaded_path = NoPath
      THEN [W2 EXCEPT !.tracks[c].downloaded_path = W2.paths[c],
                      !.downloaded = @ \cup {c}]
      ELSE play_next_resumes(W2, force_play, t)

play_next_resumes(W, force_play, t) ==
  LET W4 == cleanup_temp_files(W, t)
      c == W4.gs.current_track
  IN
  IF c = NoTrack
  THEN play_next_awaits(discard_current(W4), retry_force(force_play), t)
  ELSE
    LET left == stream_ticks(W4, c, W4.tracks[c].position)
        W5 == get_pcm_audio(W4, c, W4.tracks[c].position, t)
    IN
    IF is_playing(W5) \/ ~is_connected(W5)
    THEN play_next_awaits(discard_current(W5), retry_force(force_play), t)
    ELSE [vc_play(W5, "after_playing", left) EXCEPT !.started = c]

\* ------------------------------------------------------- TrackManager
RECURSIVE get_queue_size(_)
get_queue_size(q) == IF q = <<>> THEN 0 ELSE FileSize(Head(q)) + get_queue_size(Tail(q))

can_add_to_queue_strict(q, file_size) ==
  IF get_queue_size(q) + file_size >= max_queue_size THEN FALSE
  ELSE IF Len(q) >= max_tracks THEN FALSE
  ELSE TRUE

can_add_to_queue(q, file_size) ==
  IF get_queue_size(q) + file_size > max_queue_size THEN FALSE
  ELSE IF Len(q) >= max_tracks THEN FALSE
  ELSE TRUE

\* ------------------------------------------------------------ actions
NoPause == [track |-> NoTrack, position |-> 0, time |-> 0]

Op(name, arg, ok) == [op |-> name, arg |-> arg, ok |-> ok]

\* an AudioTrack nothing refers to any more is garbage
referenced(gs, c) == c = gs.current_track \/ \E i \in 1..Len(gs.queue) : gs.queue[i] = c

collect(R) == [c \in Tracks |-> IF referenced(R.gs, c) THEN R.tracks[c] ELSE NewTrack]

\* the handler's result becomes the state; pending callbacks are capped
Applied(R) ==
  /\ Len(R.callbacks) <= MaxPending
  /\ guild_state' = R.gs
  /\ voice' = R.voice
  /\ temp_files' = R.files
  /\ active_files' = R.active
  /\ last_cleanup' = R.last_cleanup
  /\ settings' = R.settings
  /\ callbacks' = R.callbacks
  /\ paused_at' = IF R.voice.status # "paused" THEN NoPause
                  ELSE IF voice.status = "paused" THEN paused_at
                  ELSE [track |-> guild_state.current_track,
                        position |-> IF guild_state.current_track = NoTrack THEN 0
                                     ELSE get_current_position(
                                            tracks[guild_state.current_track], now),
                        time |-> now]

\* the same, when no play_next is suspended: the tracks nothing refers to any
\* more are garbage
Apply(R) ==
  /\ Applied(R)
  /\ tracks' = collect(R)
  /\ UNCHANGED several

\* the tracks a call of play_next may reach: those waiting in the queue, the
\* attachments of the message, and the current track when the loop re-inserts it
Reachable(batch) ==
  {guild_state.queue[i] : i \in 1..Len(guild_state.queue)}
    \cup {batch[i] : i \in 1..Len(batch)}
    \cup (IF guild_state.loop_enabled THEN {guild_state.current_track} \ {NoTrack} ELSE {})

\* which of them fail to download (first set) or to decode (second set)
Failures(batch) ==
  {f \in (SUBSET Reachable(batch)) \X (SUBSET Reachable(batch)) : f[1] \cap f[2] = {}}

RECURSIVE total_size(_)
total_size(ids) ==
  IF ids = {} THEN 0
  ELSE LET i == CHOOSE x \in ids : TRUE IN FileSize(i) + total_size(ids \ {i})

\* on_message up to its call of play_next: the admission test, made once for
\* the whole message, the tracks appended, and the bot joining the channel
enqueue(W, batch) ==
  LET ids == {batch[i] : i \in 1..Len(batch)}
      q == W.gs.queue
  IN
  IF ~can_add_to_queue(q, total_size(ids)) THEN W
  ELSE
    LET W1 == [W EXCEPT !.gs.queue = q \o batch,
                        !.tracks = [x \in Tracks |-> IF x \in ids THEN NewTrack ELSE @[x]]]
    IN IF ~is_connected(W1) THEN [W1 EXCEPT !.voice.status = "idle"] ELSE W1

\* whether on_message goes on to call play_next: after it connected, or when
\* the voice client it found is not playing; autoplay must be on
on_message_plays(W, batch) ==
  /\ can_add_to_queue(W.gs.queue, total_size({batch[i] : i \in 1..Len(batch)}))
  /\ W.settings.autoplay
  /\ ~is_connected(W) \/ ~is_playing(W)

\* on_message: a mention whose audio attachments are batch, from a user in a
\* voice channel
on_message(W, batch, t, dfail, sfail) ==
  IF on_message_plays(W, batch)
  THEN play_next(enqueue(W, batch), FALSE, t, dfail, sfail)
  ELSE enqueue(W, batch)

NoFailure == <<{}, {}>>

OnMessage(batch, f) ==
  /\ n_created + Len(batch) <= NumTracks
  /\ LET R == on_message(World, batch, now, f[1], f[2])
         ok == can_add_to_queue(guild_state.queue,
                                total_size({batch[i] : i \in 1..Len(batch)}))
     IN /\ Apply(R)
        /\ n_created' = IF ok THEN n_created + Len(batch) ELSE n_created
        /\ last_op' = Op("on_message", Len(batch), ok)
  /\ UNCHANGED <<scheduled, seeks, now>>

\* attachments are numbered in the order they are posted, up to MaxBatch a message
Batches == {[i \in 1..k |-> n_created + i] : k \in 1..MaxBatch}

\* a single posting of any one attachment
OneTrack == IF n_created = 0 THEN {<<a>> : a \in Tracks} ELSE {}

\* /play; the history keeps how many downloads the call made
play(W, t, dfail, sfail) ==
  IF W.gs.queue = <<>> THEN W
  ELSE LET W1 == IF is_connected(W) THEN W ELSE [W EXCEPT !.voice.status = "idle"] IN
       IF is_playing(W1) THEN W1
       ELSE play_next(W1, TRUE, t, dfail, sfail)

Play(f) ==
  LET R == play(World, now, f[1], f[2]) IN
  /\ guild_state.queue # <<>>
  /\ ~is_playing(World)
  /\ Apply(R)
  /\ last_op' = Op("play", Cardinality(R.downloaded), TRUE)
  /\ UNCHANGED <<n_created, scheduled, seeks, now>>

\* the coroutine after_playing handed to the event loop: play_next(guild);
\* the history keeps how often the call disconnected
RunScheduled(f) ==
  /\ scheduled > 0
  /\ scheduled' = scheduled - 1
  /\ \E R \in {play_next(World, FALSE, now, f[1], f[2])} :
       /\ Apply(R)
       /\ last_op' = Op("play_next", R.disc, ~guild_state.is_seeking)
  /\ UNCHANGED <<n_created, seeks, now>>

\* the event loop takes a coroutine handed to it: the step RunScheduled makes
\* on the count of scheduled coroutines
EventLoopRuns == scheduled > 0 /\ scheduled' = scheduled - 1

\* /pause
pause(W, t) ==
  IF ~is_playing(W) THEN W
  ELSE LET c == W.gs.current_track
           W1 == IF c # NoTrack THEN [W EXCEPT !.tracks[c] = pause_playback(@, t)] ELSE W
       IN [W1 EXCEPT !.voice.status = "paused"]

Pause ==
  LET R == pause(World, now) IN
  /\ is_playing(World)
  /\ Apply(R)
  /\ last_op' = Op("pause", 0, TRUE)
  /\ UNCHANGED <<n_created, scheduled, seeks, now>>

\* /resume
resume(W, t) ==
  IF ~is_paused(W) THEN W
  ELSE LET c == W.gs.current_track
           W1 == IF c # NoTrack THEN [W EXCEPT !.tracks[c] = resume_playback(@, t)] ELSE W
       IN [W1 EXCEPT !.voice.status = "playing"]

Resume ==
  LET R == resume(World, now) IN
  /\ is_paused(World)
  /\ Apply(R)
  /\ last_op' = Op("resume", now - paused_at.time, TRUE)
  /\ UNCHANGED <<n_created, scheduled, seeks, now>>

\* /skip: only stops the stream; with no current track the handler fails
\* before it reaches the stop
skip(W) ==
  IF ~is_playing(W) \/ W.gs.current_track = NoTrack THEN W ELSE vc_stop(W)

Skip ==
  LET R == skip(World) IN
  /\ is_playing(World)
  /\ guild_state.current_track # NoTrack
  /\ Apply(R)
  /\ last_op' = Op("skip", 0, TRUE)
  /\ UNCHANGED <<n_created, scheduled, seeks, now>>

\* /stop: refused unless a stream plays; the player is stopped, then the
\* current track is released; the queue is not read
stop(W) ==
  IF ~is_playing(W) THEN W
  ELSE LET W1 == vc_stop(W)
           c == W1.gs.current_track
       IN IF c = NoTrack THEN W1
          ELSE [cleanup(mark_file_inactive(W1, W1.tracks[c].downloaded_path), c)
                  EXCEPT !.gs.current_track = NoTrack]

Stop ==
  LET R == stop(World) IN
  /\ is_playing(World)
  /\ Apply(R)
  /\ last_op' = Op("stop", 0, TRUE)
  /\ UNCHANGED <<n_created, scheduled, seeks, now>>

\* /loop [times]; times = NoLimit is the call without an argument
loop(gs, times) ==
  IF gs.current_track = NoTrack THEN gs
  ELSE [gs EXCEPT !.loop_enabled = IF times = NoLimit THEN ~gs.loop_enabled ELSE TRUE,
                  !.max_loops = times,
                  !.loop_count = 0]

Loop ==
  \E times \in 0..MaxLoops :
    LET R == [World EXCEPT !.gs = loop(@, times)] IN
    /\ guild_state.current_track # NoTrack
    /\ Apply(R)
    /\ last_op' = Op("loop", times, TRUE)
    /\ UNCHANGED <<n_created, scheduled, seeks, now>>

\* list.pop(index): a negative index counts from the end, an index out of
\* range raises IndexError
list_pop(q, index) ==
  LET i == IF index < 0 THEN Len(q) + index + 1 ELSE index + 1 IN
  IF i \in 1..Len(q)
  THEN [raised |-> FALSE, item |-> q[i],
        rest |-> SubSeq(q, 1, i - 1) \o SubSeq(q, i + 1, Len(q))]
  ELSE [raised |-> TRUE, item |-> NoTrack, rest |-> q]

\* /remove position (1-indexed)
remove_rejects_negative(q, position) == q = <<>> \/ position < 0 \/ position > Len(q)

remove_rejects(q, position) == q = <<>> \/ position < 1 \/ position > Len(q)

remove(W, position) ==
  IF remove_rejects(W.gs.queue, position) THEN W
  ELSE LET popped == list_pop(W.gs.queue, position - 1) IN
       IF popped.raised THEN W
       ELSE cleanup([W EXCEPT !.gs.queue = popped.rest], popped.item)

Remove ==
  \E position \in 0..(Len(guild_state.queue) + 1) :
    LET R == remove(World, position) IN
    /\ Apply(R)
    /\ last_op' = Op("remove", position, ~remove_rejects(guild_state.queue, position))
    /\ UNCHANGED <<n_created, scheduled, seeks, now>>

\* /autoplay and /autodisconnect
SetAutoplay ==
  \E enabled \in BOOLEAN :
    LET R == [World EXCEPT !.settings.autoplay = enabled] IN
    /\ settings.autoplay # enabled
    /\ Apply(R)
    /\ last_op' = Op("autoplay", 0, TRUE)
    /\ UNCHANGED <<n_created, scheduled, seeks, now>>

SetAutodisconnect ==
  \E enabled \in BOOLEAN :
    LET R == [World EXCEPT !.settings.autodisconnect = enabled] IN
    /\ settings.autodisconnect # enabled
    /\ Apply(R)
    /\ last_op' = Op("autodisconnect", 0, TRUE)
    /\ UNCHANGED <<n_created, scheduled, seeks, now>>

\* ------------------------------------------------------------- seeking
forward_position(tr, seconds, t) ==
  Min(get_current_position(tr, t) + seconds * TicksPerSecond,
      tr.duration - TicksPerSecond)

backward_position(tr, seconds, t) ==
  Max(0, get_current_position(tr, t) - seconds * TicksPerSecond)

timestamp_position(hours, minutes, seconds) ==
  ((hours * 3600) + (minutes * 60) + seconds) * TicksPerSecond

timestamp_invalid(hours, minutes, seconds) ==
  hours < 0 \/ minutes < 0 \/ seconds < 0 \/ seconds >= 60 \/ minutes >= 60

timestamp_rejects_beyond(tr, new_position) == new_position > tr.duration

timestamp_rejects(tr, new_position) == new_position >= tr.duration

\* the part of a seek before its sleep
seek_begin(W, new_position) ==
  LET c == W.gs.current_track
      W1 == [W EXCEPT !.gs.is_seeking = TRUE, !.tracks[c].position = new_position]
  IN IF is_playing(W1) THEN vc_stop(W1) ELSE W1

seek_accepts_unconnected(W, seconds) ==
  W.gs.current_track # NoTrack /\ seconds > 0

\* whether forward/backward get past their checks
seek_accepts(W, seconds) ==
  W.gs.current_track # NoTrack /\ seconds > 0 /\ is_connected(W)

timestamp_accepts(W, hours, minutes, seconds) ==
  /\ W.gs.current_track # NoTrack
  /\ ~timestamp_invalid(hours, minutes, seconds)
  /\ ~timestamp_rejects(W.tracks[W.gs.current_track],
                        timestamp_position(hours, minutes, seconds))
  /\ is_connected(W)

\* /forward, /backward and /timestamp up to their sleep, once get_guild_state
\* has returned: a command that fails one of its checks answers with an
\* error message and returns
forward(W, seconds, t) ==
  IF seek_accepts(W, seconds)
  THEN seek_begin(W, forward_position(W.tracks[W.gs.current_track], seconds, t))
  ELSE W

backward(W, seconds, t) ==
  IF seek_accepts(W, seconds)
  THEN seek_begin(W, backward_position(W.tracks[W.gs.current_track], seconds, t))
  ELSE W

timestamp(W, hours, minutes, seconds) ==
  IF timestamp_accepts(W, hours, minutes, seconds)
  THEN seek_begin(W, timestamp_position(hours, minutes, seconds))
  ELSE W

SeekStep(kind, arg, ok, new_position) ==
  LET R == IF ok THEN seek_begin(World, new_position) ELSE World IN
  /\ Len(seeks) < MaxSeeks
  /\ Apply(R)
  /\ seeks' = IF ok THEN Append(seeks, [kind |-> kind, new_position |-> new_position])
              ELSE seeks
  /\ last_op' = Op(kind, arg, ok)
  /\ UNCHANGED <<n_created, scheduled, now>>

Forward ==
  \E seconds \in 0..MaxSeconds :
    /\ seek_accepts(World, seconds)
    /\ SeekStep("forward", seconds, TRUE,
                forward_position(tracks[guild_state.current_track], seconds, now))

Backward ==
  \E seconds \in 0..MaxSeconds :
    /\ seek_accepts(World, seconds)
    /\ SeekStep("backward", seconds, TRUE,
                backward_position(tracks[guild_state.current_track], seconds, now))

Timestamp ==
  \E seconds \in 0..MaxSeconds :
    /\ guild_state.current_track # NoTrack
    /\ SeekStep("timestamp", seconds, timestamp_accepts(World, 0, 0, seconds),
                timestamp_position(0, 0, seconds))

\* the part of a seek after its sleep: build the stream at the new offset and
\* play it with after_seeking; any exception clears is_seeking
seek_finish(W, sk, t, build_ok) ==
  LET c == W.gs.current_track
      failed == [W EXCEPT !.gs.is_seeking = FALSE]
  IN
  IF c = NoTrack \/ ~build_ok THEN failed
  ELSE
    LET start == IF sk.kind = "timestamp" THEN W.tracks[c].position ELSE sk.new_position
        left == stream_ticks(W, c, start)
        W1 == get_pcm_audio(W, c, start, t)
    IN
    IF ~is_connected(W1) \/ is_playing(W1)
    THEN [W1 EXCEPT !.gs.is_seeking = FALSE]
    ELSE [vc_play(W1, "after_seeking", left) EXCEPT !.started = c]

SeekFinish ==
  \E build_ok \in BOOLEAN :
    /\ seeks # <<>>
    /\ \E R \in {seek_finish(World, Head(seeks), now, build_ok)} :
         /\ Apply(R)
         /\ last_op' = Op("seek_finish", Head(seeks).new_position, R.started # NoTrack)
    /\ seeks' = Tail(seeks)
    /\ UNCHANGED <<n_created, scheduled, now>>

\* ------------------------------------------- TrackManager on its own
\* a caller marks a path in use, or no longer in use
MarkActive ==
  \E p \in Tracks :
    /\ p \notin active_files
    /\ Apply(mark_file_active(World, p))
    /\ last_op' = Op("mark_file_active", p, TRUE)
    /\ UNCHANGED <<n_created, scheduled, seeks, now>>

MarkInactive ==
  \E p \in Tracks :
    /\ p \in active_files
    /\ Apply(mark_file_inactive(World, p))
    /\ last_op' = Op("mark_file_inactive", p, TRUE)
    /\ UNCHANGED <<n_created, scheduled, seeks, now>>

\* a download writes a file into the temp folder
CreateFile ==
  \E p \in Tracks :
    /\ temp_files[p] = NoFile
    /\ Apply([World EXCEPT !.files[p] = now])
    /\ last_op' = Op("create", p, TRUE)
    /\ UNCHANGED <<n_created, scheduled, seeks, now>>

\* cleanup_temp_files(); the history keeps cleaned_count
Reap ==
  LET R == cleanup_temp_files(World, now) IN
  /\ Apply(R)
  /\ last_op' = Op("cleanup_temp_files",
                   Cardinality({p \in Tracks : temp_files[p] # NoFile /\ R.files[p] = NoFile}),
                   now - last_cleanup >= cleanup_interval)
  /\ UNCHANGED <<n_created, scheduled, seeks, now>>

\* the clock moves on while nothing plays
Wait ==
  /\ now + ReapStep <= Epoch + MaxReapTime
  /\ now' = now + ReapStep
  /\ last_op' = Op("wait", 0, TRUE)
  /\ UNCHANGED <<guild_state, tracks, n_created, voice, temp_files, active_files,
                 last_cleanup, settings, callbacks, scheduled, seeks, paused_at,
                 several>>

\* can_add_to_queue(queue, file_size) for a file of any size
CanAdd ==
  \E file_size \in 1..MaxFileSize :
    /\ last_op' = Op("can_add_to_queue", file_size,
                     can_add_to_queue(guild_state.queue, file_size))
    /\ UNCHANGED <<guild_state, tracks, n_created, voice, temp_files, active_files,
                   last_cleanup, settings, callbacks, scheduled, seeks, now, paused_at,
                   several>>

\* ---------------------------------------------- the player and the clock
after_playing_always(gs) == TRUE

\* after_playing: whether it hands play_next(guild) to the event loop
after_playing(gs) == ~gs.is_seeking

\* after_playing / after_seeking, run on the player thread
RunCallback ==
  /\ callbacks # <<>>
  /\ callbacks' = Tail(callbacks)
  /\ IF Head(callbacks) = "after_seeking"
     THEN /\ guild_state' = [guild_state EXCEPT !.is_seeking = FALSE]
          /\ scheduled' = scheduled
     ELSE /\ guild_state' = guild_state
          /\ scheduled' = IF after_playing(guild_state) THEN scheduled + 1 ELSE scheduled
  /\ scheduled' <= MaxPending
  /\ last_op' = Op(Head(callbacks), 0, TRUE)
  /\ UNCHANGED <<tracks, n_created, voice, temp_files, active_files, last_cleanup,
                 settings, seeks, now, paused_at, several>>

\* the stream reaches its end
StreamEnd ==
  /\ voice.status = "playing"
  /\ voice.left = 0
  /\ Len(callbacks) < MaxPending
  /\ voice' = [status |-> "idle", after |-> "none", left |-> 0]
  /\ callbacks' = Append(callbacks, voice.after)
  /\ last_op' = Op("stream_end", 0, TRUE)
  /\ UNCHANGED <<guild_state, tracks, n_created, temp_files, active_files,
                 last_cleanup, settings, scheduled, seeks, now, paused_at, several>>

\* one tick of wall-clock time; a playing stream consumes a tick of audio
Tick ==
  /\ now < Epoch + MaxTime
  /\ voice.status \in {"playing", "paused"}
  /\ voice.status = "playing" => voice.left > 0
  /\ now' = now + 1
  /\ voice' = IF voice.status = "playing" THEN [voice EXCEPT !.left = @ - 1] ELSE voice
  /\ last_op' = Op("tick", 0, TRUE)
  /\ UNCHANGED <<guild_state, tracks, n_created, temp_files, active_files,
                 last_cleanup, settings, callbacks, scheduled, seeks, paused_at,
                 several>>

\* ------------------------------------------------------ specification
Init ==
  /\ guild_state = NewGuildState
  /\ tracks = [t \in Tracks |-> NewTrack]
  /\ n_created = 0
  /\ voice = NoVoice
  /\ temp_files = [p \in Tracks |-> NoFile]
  /\ active_files = {}
  /\ last_cleanup = Epoch
  /\ settings \in [autoplay : BOOLEAN, autodisconnect : BOOLEAN]
  /\ callbacks = <<>>
  /\ scheduled = 0
  /\ seeks = <<>>
  /\ now = Epoch
  /\ last_op = Op("init", 0, TRUE)
  /\ paused_at = NoPause
  /\ plays = [t \in Tracks |-> 0]
  /\ music_state = NewMusicState
  /\ accepted_at = [g \in Guilds |-> NoTime]
  /\ downloads = <<>>
  /\ objects = [o \in Objects |-> Unused]
  /\ guilds = [g \in Guilds |-> NewGuild]

\* history: the streams started for each track since the last /loop
Counted ==
  plays' = IF voice.status # "playing" /\ voice'.status = "playing"
           THEN [plays EXCEPT ![guild_state'.current_track] = Min(@ + 1, MaxLoops + 1)]
           ELSE plays

Recount ==
  plays' = [t \in Tracks |-> IF t = guild_state.current_track THEN 1 ELSE 0]

Next ==
  \/ (\E batch \in Batches : \E f \in Failures(batch) : OnMessage(batch, f))
       /\ UNCHANGED plays
  \/ (\E f \in Failures(<<>>) : Play(f)) /\ UNCHANGED plays
  \/ (\E f \in Failures(<<>>) : RunScheduled(f)) /\ UNCHANGED plays
  \/ Skip /\ UNCHANGED plays
  \/ Remove /\ UNCHANGED plays
  \/ SetAutoplay /\ UNCHANGED plays
  \/ SetAutodisconnect /\ UNCHANGED plays
  \/ RunCallback /\ UNCHANGED plays
  \/ StreamEnd /\ UNCHANGED plays
  \/ Tick /\ UNCHANGED plays

Spec == Init /\ [][Next]_vars

\* no completion is waiting to be handled
Quiet == callbacks = <<>> /\ scheduled = 0

\* looping: every download and every decode succeeds, and a completion is
\* handled before the next message or /play
LoopNext ==
  \/ (\E batch \in Batches : OnMessage(batch, NoFailure)) /\ Quiet /\ Counted
  \/ Play(NoFailure) /\ Quiet /\ Counted
  \/ RunScheduled(NoFailure) /\ Counted
  \/ Skip /\ Counted
  \/ Loop /\ Recount
  \/ RunCallback /\ Counted
  \/ StreamEnd /\ Counted
  \/ Tick /\ Counted

SpecLoop == Init /\ [][LoopNext]_vars

\* the same, with the player thread and the event loop making progress
FairLoop ==
  /\ SpecLoop
  /\ WF_vars(RunCallback /\ Counted)
  /\ WF_scheduled(EventLoopRuns)

\* seeking and pausing on a single track
SeekNext ==
  \/ (\E batch \in OneTrack : \E f \in Failures(batch) : OnMessage(batch, f))
       /\ UNCHANGED plays
  \/ (\E f \in Failures(<<>>) : RunScheduled(f)) /\ UNCHANGED plays
  \/ Pause /\ UNCHANGED plays
  \/ Resume /\ UNCHANGED plays
  \/ Forward /\ UNCHANGED plays
  \/ Backward /\ UNCHANGED plays
  \/ Timestamp /\ UNCHANGED plays
  \/ SeekFinish /\ UNCHANGED plays
  \/ RunCallback /\ UNCHANGED plays
  \/ StreamEnd /\ UNCHANGED plays
  \/ Tick /\ UNCHANGED plays

\* the guild's settings row holds the column defaults
InitDefaults == Init /\ settings = [autoplay |-> TRUE, autodisconnect |-> TRUE]

SpecSeek == InitDefaults /\ [][SeekNext]_vars

\* the TrackManager's files, active set and reaper
ReapNext ==
  \/ CreateFile /\ UNCHANGED plays
  \/ MarkActive /\ UNCHANGED plays
  \/ MarkInactive /\ UNCHANGED plays
  \/ Wait /\ UNCHANGED plays
  \/ Reap /\ UNCHANGED plays

SpecReap == InitDefaults /\ [][ReapNext]_vars

\* can_add_to_queue on every queue of distinct tracks
Queues ==
  {q \in UNION {[1..n -> Tracks] : n \in 0..NumTracks} :
     \A i, j \in 1..Len(q) : i # j => q[i] # q[j]}

InitAdmit ==
  /\ guild_state \in {[NewGuildState EXCEPT !.queue = q] : q \in Queues}
  /\ tracks = [t \in Tracks |-> NewTrack]
  /\ n_created = NumTracks
  /\ voice = NoVoice
  /\ temp_files = [p \in Tracks |-> NoFile]
  /\ active_files = {}
  /\ last_cleanup = Epoch
  /\ settings = [autoplay |-> TRUE, autodisconnect |-> TRUE]
  /\ callbacks = <<>>
  /\ scheduled = 0
  /\ seeks = <<>>
  /\ now = Epoch
  /\ last_op = Op("init", 0, TRUE)
  /\ paused_at = NoPause
  /\ plays = [t \in Tracks |-> 0]
  /\ music_state = NewMusicState
  /\ accepted_at = [g \in Guilds |-> NoTime]
  /\ downloads = <<>>
  /\ objects = [o \in Objects |-> Unused]
  /\ guilds = [g \in Guilds |-> NewGuild]

AdmitNext == CanAdd /\ UNCHANGED plays

SpecAdmit == InitAdmit /\ [][AdmitNext]_vars

\* seeking forward in a guild that has a queue; every download and decode
\* succeeds
SeekQueueNext ==
  \/ (\E batch \in Batches : OnMessage(batch, NoFailure)) /\ UNCHANGED plays
  \/ Play(NoFailure) /\ UNCHANGED plays
  \/ RunScheduled(NoFailure) /\ UNCHANGED plays
  \/ Skip /\ UNCHANGED plays
  \/ Forward /\ UNCHANGED plays
  \/ SeekFinish /\ UNCHANGED plays
  \/ RunCallback /\ UNCHANGED plays
  \/ StreamEnd /\ UNCHANGED plays
  \/ Tick /\ UNCHANGED plays

SpecSeekQueue == InitDefaults /\ [][SeekQueueNext]_vars

\* the player thread runs a fired callback, the event loop runs a scheduled
\* coroutine, and a sleeping seek handler wakes up
Scheduling ==
  /\ WF_vars(RunCallback /\ UNCHANGED plays)
  /\ WF_scheduled(EventLoopRuns)
  /\ WF_vars(SeekFinish /\ UNCHANGED plays)

FairSeekQueue == SpecSeekQueue /\ Scheduling

\* playing through the queue with autoplay enabled, where /play has nothing to
\* do: every download and every decode succeeds, and a completion is handled
\* before the next message
FifoNext ==
  \/ (\E batch \in Batches : OnMessage(batch, NoFailure)) /\ Quiet /\ Counted
  \/ RunScheduled(NoFailure) /\ Counted
  \/ Skip /\ Counted
  \/ RunCallback /\ Counted
  \/ StreamEnd /\ Counted
  \/ Tick /\ Counted

InitAutoplay == Init /\ settings.autoplay

SpecFifo == InitAutoplay /\ [][FifoNext]_vars

\* the player with /stop: uploads, /play, /stop, the callbacks and the clock
StopNext ==
  \/ (\E batch \in Batches : OnMessage(batch, NoFailure)) /\ UNCHANGED plays
  \/ Play(NoFailure) /\ UNCHANGED plays
  \/ RunScheduled(NoFailure) /\ UNCHANGED plays
  \/ Stop /\ UNCHANGED plays
  \/ RunCallback /\ UNCHANGED plays
  \/ StreamEnd /\ UNCHANGED plays
  \/ Tick /\ UNCHANGED plays

SpecStop == InitDefaults /\ [][StopNext]_vars


\* the player thread runs a fired callback and the event loop runs a scheduled
\* coroutine
FairFifo ==
  /\ SpecFifo
  /\ WF_vars(RunCallback /\ Counted)
  /\ WF_scheduled(EventLoopRuns)

\* ============================================================ several guilds
\* MusicState and the GuildState objects it refers to
Store == [ms |-> music_state, objects |-> objects]

new_object_shared(M) == 1

\* GuildState(): an object of an identity no guild's entry refers to
new_object(M) ==
  CHOOSE o \in Objects :
    /\ \A g \in Guilds : M.ms.guild_states[g] # o
    /\ \A p \in 1..(o - 1) : \E g \in Guilds : M.ms.guild_states[g] = p

\* MusicState.get_guild_state(guild_id) at time t
get_guild_state(M, g, t) ==
  LET M1 == IF M.ms.guild_states[g] = NoState
            THEN LET o == new_object(M) IN
                 [M EXCEPT !.ms.guild_states[g] = o, !.objects[o] = GuildState(t)]
            ELSE M
  IN [M1 EXCEPT !.objects[M1.ms.guild_states[g]].last_activity = t]

\* the object a guild's entry refers to
state_of(M, g) == M.objects[M.ms.guild_states[g]]

\* what a handler for guild g works on, once get_guild_state has returned
WorldOf(M, g) ==
  [gs |-> state_of(M, g), tracks |-> tracks, voice |-> guilds[g].voice,
   files |-> temp_files, active |-> active_files, last_cleanup |-> last_cleanup,
   settings |-> guilds[g].settings, callbacks |-> guilds[g].callbacks,
   disc |-> 0, started |-> NoTrack, downloaded |-> {},
   fault |-> NoFault, caught |-> 0, raised |-> FALSE, anchored |-> <<>>,
   paths |-> Distinct]

\* an AudioTrack no GuildState refers to any more is garbage, and so is a
\* GuildState no entry refers to
held(ms, objs, c) == \E g \in Guilds : ms.guild_states[g] # NoState
                                        /\ referenced(objs[ms.guild_states[g]], c)

collect_tracks(ms, objs, trks) ==
  [c \in Tracks |-> IF held(ms, objs, c) THEN trks[c] ELSE NewTrack]

collect_objects(ms, objs) ==
  [o \in Objects |-> IF \E g \in Guilds : ms.guild_states[g] = o THEN objs[o] ELSE Unused]

\* the single guild of the other specifications is left alone
Aside == UNCHANGED <<guild_state, voice, settings, callbacks, scheduled, seeks,
                     paused_at, plays, accepted_at, downloads>>

\* the result R of a handler for guild g becomes the state: the handler wrote
\* through its reference to the GuildState object; ms is what it left of
\* MusicState's dicts, and G what the event loop and Discord hold.  A bot that
\* joins a voice channel joins the user who called it, and a bot without a
\* voice client is in no channel.
ApplyAt(g, M, R, ms, G) ==
  LET objs == [M.objects EXCEPT ![M.ms.guild_states[g]] = R.gs] IN
  /\ Len(R.callbacks) <= MaxPending
  /\ music_state' = ms
  /\ objects' = collect_objects(ms, objs)
  /\ tracks' = collect_tracks(ms, objs, R.tracks)
  /\ guilds' = [G EXCEPT ![g].voice = R.voice,
                         ![g].callbacks = R.callbacks,
                         ![g].settings = R.settings,
                         ![g].listeners = IF R.voice.status = "none" THEN 0
                                          ELSE IF guilds[g].voice.status = "none" THEN 1
                                          ELSE @]
  /\ temp_files' = R.files
  /\ active_files' = R.active
  /\ last_cleanup' = R.last_cleanup
  /\ Aside

\* alone_since.pop(guild_id, None)
pop_alone(ms, g) == [ms EXCEPT !.alone_since[g] = NoTime]

\* play_next clears the guild's alone timer once its stream plays
after_start(M, g, R) == IF R.started # NoTrack THEN pop_alone(M.ms, g) ELSE M.ms

\* on_message in guild g
OnMessageNamed(g, batch, names) ==
  /\ n_created + Len(batch) <= MaxGuildTracks
  /\ \E M \in {get_guild_state(Store, g, now)} :
     \E R \in {on_message([WorldOf(M, g) EXCEPT !.paths = names], batch, now, {}, {})} :
       LET ok == can_add_to_queue(state_of(M, g).queue,
                                  total_size({batch[i] : i \in 1..Len(batch)}))
       IN /\ ApplyAt(g, M, R, after_start(M, g, R), guilds)
          /\ n_created' = IF ok THEN n_created + Len(batch) ELSE n_created
          /\ last_op' = Op("handler", g, TRUE)
  /\ UNCHANGED now

OnMessageIn(g, batch) == OnMessageNamed(g, batch, Distinct)

\* /play in guild g
PlayIn(g) ==
  /\ \E M \in {get_guild_state(Store, g, now)} :
     \E R \in {play(WorldOf(M, g), now, {}, {})} :
       /\ state_of(M, g).queue # <<>>
       /\ ~is_playing(WorldOf(M, g))
       /\ ApplyAt(g, M, R, after_start(M, g, R), guilds)
       /\ last_op' = Op("handler", g, TRUE)
  /\ UNCHANGED <<n_created, now>>

\* the coroutine play_next(guild) the event loop runs for guild g; fault is
\* where, if anywhere, a statement raises an exception nothing expects.  The
\* history keeps the place of an exception that was raised, and whether the
\* call returned normally.
RunScheduledNamed(g, fault, names) ==
  /\ guilds[g].scheduled > 0
  /\ \E M \in {get_guild_state(Store, g, now)} :
     \E R \in {play_next([WorldOf(M, g) EXCEPT !.fault = fault, !.paths = names],
                         FALSE, now, {}, {})} :
       /\ ApplyAt(g, M, R, after_start(M, g, R),
                  [guilds EXCEPT ![g].scheduled = @ - 1])
       /\ last_op' = Op(IF R.caught > 0 \/ R.raised THEN fault ELSE "play_next", g,
                        ~R.raised)
  /\ UNCHANGED <<n_created, now>>

RunScheduledIn(g, fault) == RunScheduledNamed(g, fault, Distinct)

\* a command for guild g: get_guild_state, then the handler.  For a handler
\* that runs for one of several guilds the history keeps the guild, and the
\* place of the exception if play_next met one.
CommandIn(g, R(_), accepts(_)) ==
  /\ \E M \in {get_guild_state(Store, g, now)} :
       /\ accepts(WorldOf(M, g))
       /\ ApplyAt(g, M, R(WorldOf(M, g)), M.ms, guilds)
       /\ last_op' = Op("handler", g, TRUE)
  /\ UNCHANGED <<n_created, now>>

SkipIn(g) ==
  LET R(W) == skip(W)
      accepts(W) == is_playing(W) /\ W.gs.current_track # NoTrack
  IN CommandIn(g, R, accepts)

PauseIn(g) ==
  LET R(W) == pause(W, now)
      accepts(W) == is_playing(W)
  IN CommandIn(g, R, accepts)

ResumeIn(g) ==
  LET R(W) == resume(W, now)
      accepts(W) == is_paused(W)
  IN CommandIn(g, R, accepts)

LoopIn(g) ==
  LET R(W) == [W EXCEPT !.gs = loop(@, NoLimit)]
      accepts(W) == W.gs.current_track # NoTrack
  IN CommandIn(g, R, accepts)

RemoveIn(g) ==
  LET R(W) == remove(W, 1)
      accepts(W) == ~remove_rejects(W.gs.queue, 1)
  IN CommandIn(g, R, accepts)

\* track.cleanup() for every track of a queue
RECURSIVE cleanup_all(_, _)
cleanup_all(W, q) ==
  IF q = <<>> THEN W ELSE cleanup_all(cleanup(W, Head(q)), Tail(q))

\* /clear
clear(W) == [cleanup_all(W, W.gs.queue) EXCEPT !.gs.queue = <<>>]

ClearIn(g) ==
  LET R(W) == clear(W)
      accepts(W) == W.gs.queue # <<>>
  IN CommandIn(g, R, accepts)

\* /disconnect
disconnect(W) ==
  IF ~is_connected(W) THEN W
  ELSE LET c == W.gs.current_track
           W1 == IF c # NoTrack
                 THEN [cleanup(mark_file_inactive(W, W.tracks[c].downloaded_path), c)
                         EXCEPT !.gs.current_track = NoTrack]
                 ELSE W
       IN vc_disconnect(clear(W1))

DisconnectIn(g) ==
  LET R(W) == disconnect(W)
      accepts(W) == is_connected(W)
  IN CommandIn(g, R, accepts)

\* /forward 1 in guild g, up to its sleep
ForwardIn(g) ==
  \E seconds \in {1} :
    /\ Len(guilds[g].seeks) < MaxSeeks
    /\ \E M \in {get_guild_state(Store, g, now)} :
         LET W == WorldOf(M, g)
             new_position == forward_position(W.tracks[W.gs.current_track], seconds, now)
         IN /\ seek_accepts(W, seconds)
            /\ ApplyAt(g, M, seek_begin(W, new_position), M.ms,
                       [guilds EXCEPT ![g].seeks =
                          Append(@, [kind |-> "forward", new_position |-> new_position])])
            /\ last_op' = Op("handler", g, TRUE)
    /\ UNCHANGED <<n_created, now>>

\* and after it; the handler holds the GuildState it looked up before the sleep
SeekFinishIn(g) ==
  /\ guilds[g].seeks # <<>>
  /\ music_state.guild_states[g] # NoState
  /\ \E R \in {seek_finish(WorldOf(Store, g), Head(guilds[g].seeks), now, TRUE)} :
       /\ ApplyAt(g, Store, R, music_state, [guilds EXCEPT ![g].seeks = Tail(@)])
       /\ last_op' = Op("handler", g, TRUE)
  /\ UNCHANGED <<n_created, now>>

\* after_playing / after_seeking of guild g, run on the player thread; both
\* hold the GuildState that was current when the stream was started
RunCallbackIn(g) ==
  LET G == guilds[g]
      o == music_state.guild_states[g]
  IN
  /\ G.callbacks # <<>>
  /\ o # NoState
  /\ IF Head(G.callbacks) = "after_seeking"
     THEN /\ objects' = [objects EXCEPT ![o].is_seeking = FALSE]
          /\ music_state' = music_state
          /\ guilds' = [guilds EXCEPT ![g].callbacks = Tail(@)]
     ELSE /\ objects' = objects
          /\ music_state' = pop_alone(music_state, g)
          /\ guilds' = [guilds EXCEPT ![g].callbacks = Tail(@),
                                      ![g].scheduled = IF after_playing(objects[o])
                                                       THEN @ + 1 ELSE @]
  /\ guilds'[g].scheduled <= MaxPending
  /\ last_op' = Op("handler", g, TRUE)
  /\ Aside
  /\ UNCHANGED <<tracks, n_created, temp_files, active_files, last_cleanup, now>>

\* several guilds served at once, while the clock stands still; every
\* download and every decode succeeds
GuildsNext ==
  \/ \E g \in Guilds : \E batch \in Batches : OnMessageIn(g, batch)
  \/ \E g \in Guilds : PlayIn(g)
  \/ \E g \in Guilds : \E fault \in Faults \cup {NoFault} : RunScheduledIn(g, fault)
  \/ \E g \in Guilds : SkipIn(g)
  \/ \E g \in Guilds : PauseIn(g)
  \/ \E g \in Guilds : ResumeIn(g)
  \/ \E g \in Guilds : LoopIn(g)
  \/ \E g \in Guilds : RemoveIn(g)
  \/ \E g \in Guilds : ClearIn(g)
  \/ \E g \in Guilds : DisconnectIn(g)
  \/ \E g \in Guilds : ForwardIn(g)
  \/ \E g \in Guilds : SeekFinishIn(g)
  \/ \E g \in Guilds : RunCallbackIn(g)

SpecGuilds == InitDefaults /\ [][GuildsNext]_vars

\* the guild the bot joined first
First == {g \in Guilds : \A h \in Guilds : g <= h}

\* /pause and /resume as a whole: the handler looks at the guild's voice
\* client first, and only a command that gets past this test reaches
\* get_guild_state
pause_accepts_any(G) == TRUE

pause_accepts(G) == G.voice.status = "playing"

resume_accepts(G) == G.voice.status = "paused"

VoiceCommandIn(g, command, accepted, R(_)) ==
  /\ IF accepted
     THEN \E M \in {get_guild_state(Store, g, now)} :
            ApplyAt(g, M, R(WorldOf(M, g)), M.ms, guilds)
     ELSE /\ UNCHANGED <<music_state, objects, guilds, tracks, temp_files,
                         active_files, last_cleanup>>
          /\ Aside
  /\ last_op' = Op(command, g, accepted)
  /\ UNCHANGED <<n_created, now>>

PauseCommandIn(g) ==
  LET R(W) == pause(W, now)
  IN VoiceCommandIn(g, "pause", pause_accepts(guilds[g]), R)

ResumeCommandIn(g) ==
  LET R(W) == resume(W, now)
  IN VoiceCommandIn(g, "resume", resume_accepts(guilds[g]), R)

\* one guild with its playback commands, /pause and /resume issued in every
\* state
PauseNext ==
  \/ \E g \in First : \E batch \in Batches : OnMessageIn(g, batch)
  \/ \E g \in First : RunScheduledIn(g, NoFault)
  \/ \E g \in First : RunCallbackIn(g)
  \/ \E g \in First : SkipIn(g)
  \/ \E g \in First : LoopIn(g)
  \/ \E g \in First : ForwardIn(g)
  \/ \E g \in First : SeekFinishIn(g)
  \/ \E g \in First : DisconnectIn(g)
  \/ \E g \in First : PauseCommandIn(g)
  \/ \E g \in First : ResumeCommandIn(g)

SpecPause == InitDefaults /\ [][PauseNext]_vars

\* ------------------------------------------------- the cleanup sweep
\* thresholds of the sweep and of the rate limit, in seconds
alone_limit == 300
inactive_limit == 3600
rate_limit_window == 2
rate_limit_expiry == 60

\* everything the sweep can reach
Bot ==
  [ms |-> music_state, objects |-> objects, guilds |-> guilds, tracks |-> tracks,
   files |-> temp_files, active |-> active_files, last_cleanup |-> last_cleanup]

\* guild.voice_client.disconnect() as the sweep and the waiter call it
bot_disconnect(B, g) ==
  LET W == vc_disconnect([voice |-> B.guilds[g].voice,
                          callbacks |-> B.guilds[g].callbacks, disc |-> 0])
  IN [B EXCEPT !.guilds[g].voice = W.voice,
               !.guilds[g].callbacks = W.callbacks,
               !.guilds[g].listeners = 0]

\* track.cleanup() on the tracks of q, in turn
RECURSIVE bot_cleanup(_, _)
bot_cleanup(B, q) ==
  IF q = <<>> THEN B
  ELSE LET W == cleanup([tracks |-> B.tracks, files |-> B.files], Head(q))
       IN bot_cleanup([B EXCEPT !.tracks = W.tracks, !.files = W.files], Tail(q))

alone_pass_keeps(B, g, t, failing) == B

\* pass 1 of the sweep for one guild; failing are the guilds whose disconnect()
\* raises, which leaves the voice client as it was
alone_pass(B, g, t, failing) ==
  IF B.ms.alone_since[g] # NoTime
     /\ t - B.ms.alone_since[g] > alone_limit * TicksPerSecond
  THEN IF B.guilds[g].voice.status # "none" /\ B.guilds[g].listeners = 0
       THEN IF g \in failing THEN B
            ELSE [bot_disconnect(B, g) EXCEPT !.ms.alone_since[g] = NoTime]
       ELSE [B EXCEPT !.ms.alone_since[g] = NoTime]
  ELSE B

inactive_pass_keeps(B, g, t, failing) == B

\* pass 2 of the sweep for one guild
inactive_pass(B, g, t, failing) ==
  LET o == B.ms.guild_states[g] IN
  IF o # NoState /\ t - B.objects[o].last_activity > inactive_limit * TicksPerSecond
  THEN IF B.guilds[g].voice.status # "none" /\ g \in failing THEN B
       ELSE LET B1 == IF B.guilds[g].voice.status # "none" THEN bot_disconnect(B, g) ELSE B
                c == B1.objects[o].current_track
                B2 == IF c # NoTrack THEN bot_cleanup(B1, <<c>>) ELSE B1
                B3 == bot_cleanup(B2, B2.objects[o].queue)
            IN [B3 EXCEPT !.ms.guild_states[g] = NoState]
  ELSE B

\* a pass over the guilds 1..n
RECURSIVE over_guilds(_, _, _, _, _)
over_guilds(pass(_, _, _, _), B, n, t, failing) ==
  IF n = 0 THEN B
  ELSE pass(over_guilds(pass, B, n - 1, t, failing), n, t, failing)

prune_never(ms, t) == ms

\* pass 3: the rate limits younger than a minute stay
prune(ms, t) ==
  [ms EXCEPT !.rate_limits =
     [g \in Guilds |-> IF ms.rate_limits[g] # NoTime
                          /\ t - ms.rate_limits[g] < rate_limit_expiry * TicksPerSecond
                       THEN ms.rate_limits[g] ELSE NoTime]]

\* one iteration of periodic_cleanup at time t
periodic_cleanup(B, t, failing) ==
  LET alone(b, g, u, f) == alone_pass(b, g, u, f)
      inactive(b, g, u, f) == inactive_pass(b, g, u, f)
      B1 == over_guilds(alone, B, NumGuilds, t, failing)
      B2 == over_guilds(inactive, B1, NumGuilds, t, failing)
      B3 == [B2 EXCEPT !.ms = prune(@, t)]
      W == cleanup_temp_files([files |-> B3.files, active |-> B3.active,
                               last_cleanup |-> B3.last_cleanup], t)
  IN [B3 EXCEPT !.files = W.files, !.last_cleanup = W.last_cleanup]

\* what a step on the whole bot leaves behind
ApplyBot(B) ==
  /\ \A g \in Guilds : Len(B.guilds[g].callbacks) <= MaxPending
  /\ music_state' = B.ms
  /\ objects' = collect_objects(B.ms, B.objects)
  /\ guilds' = B.guilds
  /\ tracks' = collect_tracks(B.ms, B.objects, B.tracks)
  /\ temp_files' = B.files
  /\ active_files' = B.active
  /\ last_cleanup' = B.last_cleanup
  /\ Aside

\* some of the connected guilds have a disconnect() that raises; the history
\* keeps inactive_guilds, the guilds the iteration removed
Sweep ==
  \E failing \in SUBSET {g \in Guilds : guilds[g].voice.status # "none"} :
    LET B == periodic_cleanup(Bot, now, failing)
        inactive_guilds == {g \in Guilds : /\ music_state.guild_states[g] # NoState
                                           /\ B.ms.guild_states[g] = NoState}
    IN /\ ApplyBot(B)
       /\ last_op' = Op("periodic_cleanup", inactive_guilds, TRUE)
       /\ UNCHANGED <<n_created, now>>

\* on_voice_state_update when the last user leaves the bot's voice channel:
\* the timer is set and the handler goes to sleep
LeaveWithin(g, sleepers) ==
  /\ guilds[g].voice.status # "none"
  /\ guilds[g].listeners = 1
  /\ Len(guilds[g].waiters) < sleepers
  /\ music_state' = [music_state EXCEPT !.alone_since[g] = now]
  /\ guilds' = [guilds EXCEPT ![g].listeners = 0, ![g].waiters = Append(@, now)]
  /\ last_op' = Op("handler", g, TRUE)
  /\ Aside
  /\ UNCHANGED <<objects, tracks, n_created, temp_files, active_files, last_cleanup, now>>

Leave(g) == LeaveWithin(g, MaxWaiters)

\* a user joins the bot's voice channel; on_voice_state_update does nothing
\* for a member who was in no channel before
Join(g) ==
  /\ guilds[g].voice.status # "none"
  /\ guilds[g].listeners < MaxListeners
  /\ guilds' = [guilds EXCEPT ![g].listeners = @ + 1]
  /\ last_op' = Op("handler", g, TRUE)
  /\ Aside
  /\ UNCHANGED <<music_state, objects, tracks, n_created, temp_files, active_files,
                 last_cleanup, now>>

\* on_voice_state_update after its sleep of five minutes, at time t
waiter_wakes(B, g, t, fails) ==
  IF B.guilds[g].voice.status # "none" /\ B.guilds[g].listeners = 0
  THEN IF fails THEN B
       ELSE LET B1 == bot_disconnect(B, g)
                M == get_guild_state([ms |-> B1.ms, objects |-> B1.objects], g, t)
                o == M.ms.guild_states[g]
                B2 == [B1 EXCEPT !.ms = M.ms, !.objects = M.objects]
                c == B2.objects[o].current_track
                B3 == IF c # NoTrack THEN bot_cleanup(B2, <<c>>) ELSE B2
                B4 == bot_cleanup(B3, B3.objects[o].queue)
            IN [B4 EXCEPT !.objects[o].queue = <<>>, !.ms.alone_since[g] = NoTime]
  ELSE B

WaiterWakes(g) ==
  /\ guilds[g].waiters # <<>>
  /\ now - Head(guilds[g].waiters) >= alone_limit * TicksPerSecond
  /\ \E fails \in BOOLEAN :
       /\ ApplyBot(waiter_wakes([Bot EXCEPT !.guilds[g].waiters = Tail(@)], g, now, fails))
       /\ last_op' = Op("waiter", g, ~fails)
  /\ UNCHANGED <<n_created, now>>

\* the instants, in seconds from the start, at which the bot is looked at
\* again once it has fallen silent: the first lies two alone-timer limits
\* after the start, the second an inactivity limit after the first
Instants == {2 * alone_limit, inactive_limit + 2 * alone_limit}

\* time passes, up to one of these instants, while no stream plays; a sleeping
\* on_voice_state_update that is due wakes before the clock moves on
Nap(seconds) ==
  /\ now < Epoch + seconds * TicksPerSecond
  /\ \A g \in Guilds : guilds[g].voice.status # "playing"
  /\ \A g \in Guilds : guilds[g].waiters # <<>> =>
        now - Head(guilds[g].waiters) < alone_limit * TicksPerSecond
  /\ now' = Epoch + seconds * TicksPerSecond
  /\ last_op' = Op("nap", 0, TRUE)
  /\ Aside
  /\ UNCHANGED <<music_state, objects, guilds, tracks, n_created, temp_files,
                 active_files, last_cleanup>>

\* the stream of guild g reaches its end
StreamEndIn(g) ==
  LET G == guilds[g] IN
  /\ G.voice.status = "playing"
  /\ Len(G.callbacks) < MaxPending
  /\ guilds' = [guilds EXCEPT ![g].voice = [status |-> "idle", after |-> "none", left |-> 0],
                              ![g].callbacks = Append(@, G.voice.after)]
  /\ last_op' = Op("handler", g, TRUE)
  /\ Aside
  /\ UNCHANGED <<music_state, objects, tracks, n_created, temp_files, active_files,
                 last_cleanup, now>>

\* a seek command for guild g, whatever the guild is doing; the history keeps
\* the command and whether it got past its checks
SeekIn(g) ==
  \E kind \in {"forward", "backward", "timestamp"} : \E seconds \in {1} :
    /\ Len(guilds[g].seeks) < MaxSeeks
    /\ \E M \in {get_guild_state(Store, g, now)} :
         LET W == WorldOf(M, g)
             R == IF kind = "forward" THEN forward(W, seconds, now)
                  ELSE IF kind = "backward" THEN backward(W, seconds, now)
                  ELSE timestamp(W, 0, 0, seconds)
             ok == IF kind = "timestamp" THEN timestamp_accepts(W, 0, 0, seconds)
                   ELSE seek_accepts(W, seconds)
         IN /\ ApplyAt(g, M, R, M.ms,
                       [guilds EXCEPT ![g].seeks =
                          IF ok THEN Append(@, [kind |-> kind,
                                                new_position |->
                                                  R.tracks[R.gs.current_track].position])
                          ELSE @])
            /\ last_op' = Op(kind, g, ok)
    /\ UNCHANGED <<n_created, now>>

\* the sweep among guilds that play, fall silent and are left alone
SweepNext ==
  \/ \E g \in Guilds : \E batch \in {b \in Batches : Len(b) = 1} : OnMessageIn(g, batch)
  \/ \E g \in Guilds : RunScheduledIn(g, NoFault)
  \/ \E g \in Guilds : RunCallbackIn(g)
  \/ \E g \in Guilds : StreamEndIn(g)
  \/ \E g \in Guilds : Leave(g)
  \/ \E g \in Guilds : Join(g)
  \/ \E g \in Guilds : WaiterWakes(g)
  \/ \E seconds \in Instants : Nap(seconds)
  \/ Sweep

\* /autodisconnect is switched off in every guild, so that the bot stays in
\* its channel when a queue runs out
InitSweep ==
  /\ guild_state = NewGuildState
  /\ tracks = [t \in Tracks |-> NewTrack]
  /\ n_created = 0
  /\ voice = NoVoice
  /\ temp_files = [p \in Tracks |-> NoFile]
  /\ active_files = {}
  /\ last_cleanup = Epoch
  /\ settings = [autoplay |-> TRUE, autodisconnect |-> TRUE]
  /\ callbacks = <<>>
  /\ scheduled = 0
  /\ seeks = <<>>
  /\ now = Epoch
  /\ last_op = Op("init", 0, TRUE)
  /\ paused_at = NoPause
  /\ plays = [t \in Tracks |-> 0]
  /\ music_state = NewMusicState
  /\ accepted_at = [g \in Guilds |-> NoTime]
  /\ downloads = <<>>
  /\ objects = [o \in Objects |-> Unused]
  /\ guilds = [g \in Guilds |-> [NewGuild EXCEPT !.settings.autodisconnect = FALSE]]

SpecSweep == InitSweep /\ [][SweepNext]_vars

\* one guild on its own, with the seek commands
AloneNext ==
  \/ \E g \in First : \E batch \in {b \in Batches : Len(b) = 1} : OnMessageIn(g, batch)
  \/ \E g \in First : RunScheduledIn(g, NoFault)
  \/ \E g \in First : RunCallbackIn(g)
  \/ \E g \in First : StreamEndIn(g)
  \/ \E g \in First : Leave(g)
  \/ \E g \in First : Join(g)
  \/ \E g \in First : WaiterWakes(g)
  \/ \E g \in First : SeekIn(g)
  \/ \E g \in First : SeekFinishIn(g)
  \/ \E seconds \in Instants : Nap(seconds)
  \/ Sweep

SpecAlone == InitSweep /\ [][AloneNext]_vars

\* one guild on its own, with /pause, /resume, /loop and /disconnect: a
\* paused stream stays paused while the clock moves on
IdleNext ==
  \/ \E g \in First : \E batch \in {b \in Batches : Len(b) = 1} : OnMessageIn(g, batch)
  \/ \E g \in First : RunScheduledIn(g, NoFault)
  \/ \E g \in First : RunCallbackIn(g)
  \/ \E g \in First : StreamEndIn(g)
  \/ \E g \in First : Leave(g)
  \/ \E g \in First : Join(g)
  \/ \E g \in First : WaiterWakes(g)
  \/ \E g \in First : PauseCommandIn(g)
  \/ \E g \in First : ResumeCommandIn(g)
  \/ \E g \in First : LoopIn(g)
  \/ \E g \in First : DisconnectIn(g)
  \/ \E seconds \in Instants : Nap(seconds)
  \/ Sweep

SpecIdle == InitSweep /\ [][IdleNext]_vars

\* the moments, in seconds from the start, at which a guild whose users come
\* and go is looked at: before the first sleeping handler is due, when it is
\* due, and when one that went to sleep in between is due
Moments == {alone_limit - 100, alone_limit, 2 * alone_limit - 100}

\* one guild whose users leave and come back while handlers of earlier
\* leaves are still asleep
GraceNext ==
  \/ \E g \in First : \E batch \in {b \in Batches : Len(b) = 1} : OnMessageIn(g, batch)
  \/ \E g \in First : RunScheduledIn(g, NoFault)
  \/ \E g \in First : RunCallbackIn(g)
  \/ \E g \in First : StreamEndIn(g)
  \/ \E g \in First : LeaveWithin(g, MaxSleepers)
  \/ \E g \in First : Join(g)
  \/ \E g \in First : WaiterWakes(g)
  \/ \E seconds \in Moments : Nap(seconds)
  \/ Sweep

SpecGrace == InitSweep /\ [][GraceNext]_vars

\* several guilds whose users upload attachments that all have the same
\* filename, played to their end or skipped, until the bot is sent away
NamesNext ==
  \/ \E g \in Guilds : \E batch \in Batches : OnMessageNamed(g, batch, SameName)
  \/ \E g \in Guilds : RunScheduledNamed(g, NoFault, SameName)
  \/ \E g \in Guilds : RunCallbackIn(g)
  \/ \E g \in Guilds : StreamEndIn(g)
  \/ \E g \in Guilds : SkipIn(g)
  \/ \E g \in Guilds : DisconnectIn(g)

SpecNames == InitSweep /\ [][NamesNext]_vars

\* ------------------------------------------------------ the rate limit
check_rate_limit_sliding(ms, g, t) ==
  [ms |-> [ms EXCEPT !.rate_limits[g] = t],
   ok |-> ~(ms.rate_limits[g] # NoTime
            /\ t - ms.rate_limits[g] < rate_limit_window * TicksPerSecond)]

\* MusicState.check_rate_limit(guild_id) at time t: what it leaves of
\* MusicState, and what it returns
check_rate_limit(ms, g, t) ==
  IF ms.rate_limits[g] # NoTime
     /\ t - ms.rate_limits[g] < rate_limit_window * TicksPerSecond
  THEN [ms |-> ms, ok |-> FALSE]
  ELSE [ms |-> [ms EXCEPT !.rate_limits[g] = t], ok |-> TRUE]

\* an action of guild g asks the rate limit
CheckRateLimit(g) ==
  \E R \in {check_rate_limit(music_state, g, now)} :
    /\ music_state' = R.ms
    /\ accepted_at' = IF R.ok THEN [accepted_at EXCEPT ![g] = now] ELSE accepted_at
    /\ last_op' = Op("check_rate_limit", g, R.ok)
    /\ UNCHANGED <<guild_state, tracks, n_created, voice, temp_files, active_files,
                   last_cleanup, settings, callbacks, scheduled, seeks, now,
                   paused_at, plays, objects, guilds, downloads>>

\* the steps of the clock, in ticks: half a second, a second and a half, and
\* the age at which the sweep drops an entry
Elapses == {1, 3, rate_limit_expiry * TicksPerSecond}

\* the clock moves by a short step within a burst of actions, or past the
\* expiry to the next burst
Elapse(d) ==
  /\ now + d <= Epoch + MaxElapsed
  /\ (now + d - Epoch) % (rate_limit_expiry * TicksPerSecond) <= MaxBurst
  /\ now' = now + d
  /\ last_op' = Op("elapse", 0, TRUE)
  /\ UNCHANGED <<guild_state, tracks, n_created, voice, temp_files, active_files,
                 last_cleanup, settings, callbacks, scheduled, seeks,
                 paused_at, plays, music_state, objects, guilds, accepted_at, downloads>>

\* rate-limited actions of several guilds, the clock and the sweep
RateNext ==
  \/ \E g \in Guilds : CheckRateLimit(g)
  \/ \E d \in Elapses : Elapse(d)
  \/ Sweep

SpecRate == InitDefaults /\ [][RateNext]_vars

\* ============================================================== claims
current == guild_state.current_track

\* the tracks whose metadata has been read
Known == {c \in Tracks : tracks[c].downloaded_path # NoPath /\ tracks[c].duration > 0}

\* C1: for every track, at every observation point, the reported position
\* lies between 0 and the track's duration.
C1_PositionWithinDuration ==
  \A c \in Known :
    /\ 0 <= get_current_position(tracks[c], now)
    /\ get_current_position(tracks[c], now) <= tracks[c].duration

\* C2: a pause followed, after any delay, by a resume reports the position
\* that was reported immediately before the pause.
C2_ResumeKeepsPosition ==
  [][(last_op'.op = "resume" /\ paused_at.track # NoTrack /\ current = paused_at.track)
       => get_current_position(tracks'[current], now') = paused_at.position]_vars

C2_Witness ==
  /\ last_op.op = "resume"
  /\ last_op.arg >= 2
  /\ current # NoTrack
  /\ voice.status = "playing"
  /\ get_current_position(tracks[current], now) \in 1..(tracks[current].duration - 1)

\* C7: a forward seek of N > 0 seconds leaves the new position inside
\* [0, duration - 1 second].
C7_ForwardWithinTrack ==
  (last_op.op = "forward" /\ current # NoTrack)
    => /\ 0 <= tracks[current].position
       /\ tracks[current].position <= tracks[current].duration - TicksPerSecond

\* C8: a timestamp seek whose target is at or beyond the current track's
\* duration changes neither the track's position, nor is_seeking, nor
\* current_track, nor the queue, nor the running stream.
C8_TimestampBeyondEndRejected ==
  [][(/\ last_op'.op = "timestamp"
      /\ current # NoTrack
      /\ timestamp_position(0, 0, last_op'.arg) >= tracks[current].duration)
       => UNCHANGED <<guild_state, tracks, voice, callbacks, seeks>>]_vars

C8_Witness ==
  /\ last_op.op = "timestamp"
  /\ ~last_op.ok
  /\ current # NoTrack
  /\ timestamp_position(0, 0, last_op.arg) = tracks[current].duration
  /\ voice.status = "playing"

C5_StreamFailureSkips ==
  \A f \in Failures(<<>>), force_play \in BOOLEAN :
    LET q == guild_state.queue
        R == play_next(World, force_play, now, f[1], f[2])
    IN (/\ ~guild_state.is_seeking
        /\ ~guild_state.loop_enabled
        /\ is_connected(World)
        /\ ~is_playing(World)
        /\ force_play \/ settings.autoplay
        /\ Len(q) >= 2
        /\ q[1] \in f[2]
        /\ q[2] \notin f[1] \cup f[2])
       => /\ R.gs.current_track = q[2]
          /\ R.started = q[2]
          /\ is_playing(R)
          /\ ~referenced(R.gs, q[1])
          /\ R.gs.queue = SubSeq(q, 3, Len(q))
          /\ current # NoTrack
               => /\ ~referenced(R.gs, current)
                  /\ R.tracks[current].downloaded_path = NoPath
                  /\ R.files[PathOf(current)] = NoFile

\* track 1 has been played and released, track 2 was downloaded in the call
\* that started track 3 and is gone from the queue
C5_Witness ==
  /\ last_op.op = "play_next"
  /\ current = 3
  /\ voice.status = "playing"
  /\ guild_state.queue = <<>>
  /\ temp_files[PathOf(1)] = NoFile
  /\ temp_files[PathOf(2)] # NoFile
  /\ temp_files[PathOf(2)] = temp_files[PathOf(3)]
  /\ temp_files[PathOf(3)] > Epoch

\* C6: can_add_to_queue refuses a file that takes the queue's total size
\* over the maximum and accepts one that brings it exactly to the maximum
\* while the track count is below its limit; the queue is left as it was.
C6_AdmitsUpToTheMaximum ==
  last_op.op = "can_add_to_queue"
    => LET total == total_size({guild_state.queue[i] : i \in 1..Len(guild_state.queue)})
                      + last_op.arg
       IN /\ total > max_queue_size => ~last_op.ok
          /\ (total = max_queue_size /\ Len(guild_state.queue) < max_tracks) => last_op.ok

C6_Witness ==
  /\ last_op.op = "can_add_to_queue"
  /\ last_op.ok
  /\ guild_state.queue # <<>>
  /\ get_queue_size(guild_state.queue) + last_op.arg = max_queue_size

\* C9: /remove takes a 1-indexed position: 0 and anything above the queue's
\* length leave the queue unchanged, a valid position removes exactly the track
\* at that place and keeps the order of the others; current_track never changes.
C9_RemoveIsOneIndexed ==
  [][last_op'.op = "remove"
       => LET q == guild_state.queue
              position == last_op'.arg
          IN /\ guild_state'.current_track = guild_state.current_track
             /\ IF position < 1 \/ position > Len(q)
                THEN guild_state'.queue = q
                ELSE guild_state'.queue =
                       [i \in 1..(Len(q) - 1) |-> IF i < position THEN q[i] ELSE q[i + 1]]]_vars

C9_Witness ==
  /\ last_op.op = "remove"
  /\ last_op.ok
  /\ last_op.arg = 1
  /\ current # NoTrack
  /\ guild_state.queue # <<>>

\* C10: cleanup_temp_files deletes no path that is in the active-file set when
\* it runs, whatever the file's age; what it deletes is inactive and older than
\* the maximum age.
C10_ReapSparesActiveFiles ==
  [][last_op'.op = "cleanup_temp_files"
       => \A p \in Tracks :
            (temp_files[p] # NoFile /\ temp_files'[p] = NoFile)
              => /\ p \notin active_files
                 /\ now - temp_files[p] > file_max_age]_vars

C10_Witness ==
  /\ last_op.op = "cleanup_temp_files"
  /\ last_op.arg >= 1
  /\ \E p \in active_files :
       /\ temp_files[p] # NoFile
       /\ now - temp_files[p] > file_max_age

\* C11: while is_seeking is set, play_next returns immediately whatever
\* force_play is: the queue, current_track, the loop fields, the active-file
\* set and the voice connection are as they were, nothing is disconnected,
\* downloaded or started.
C11_SeekingReturnsAtOnce ==
  \A f \in Failures(<<>>), force_play \in BOOLEAN :
    guild_state.is_seeking
      => LET R == play_next(World, force_play, now, f[1], f[2]) IN
         /\ R.gs = guild_state
         /\ R.active = active_files
         /\ R.voice = voice
         /\ R.tracks = tracks
         /\ R.disc = 0
         /\ R.started = NoTrack
         /\ R.downloaded = {}

\* a play_next scheduled by a completion ran during a seek, with a track
\* waiting in the queue
C11_Witness ==
  /\ last_op.op = "play_next"
  /\ ~last_op.ok
  /\ guild_state.is_seeking
  /\ current # NoTrack
  /\ guild_state.queue # <<>>

\* C12: play_next without force_play, autoplay disabled, on a non-empty queue
\* pops no track and starts no stream: the queue keeps its content and order,
\* the voice client is left as it was and nothing is downloaded; and while
\* autoplay is disabled only /play starts a stream.
C12_AutoplayOffKeepsQueue ==
  /\ [](\A f \in Failures(<<>>) :
          (/\ ~guild_state.is_seeking
           /\ ~settings.autoplay
           /\ guild_state.queue # <<>>)
            => LET R == play_next(World, FALSE, now, f[1], f[2]) IN
               /\ R.gs.queue = loop_step(guild_state).queue
               /\ R.gs.current_track = NoTrack
               /\ R.started = NoTrack
               /\ R.downloaded = {}
               /\ R.voice = voice)
  /\ [][(~settings.autoplay /\ voice.status # "playing" /\ voice'.status = "playing")
          => last_op'.op = "play"]_vars

\* a completion was handled with autoplay disabled: the track that ended is
\* released, the queue waits, the voice client idles
C12_Witness ==
  /\ last_op.op = "play_next"
  /\ ~settings.autoplay
  /\ guild_state.queue # <<>>
  /\ current = NoTrack
  /\ voice.status = "idle"

C14_SkipAdvances ==
  /\ [][last_op'.op = "skip"
          => /\ guild_state'.queue = guild_state.queue
             /\ guild_state'.current_track = current]_vars
  /\ \A c \in Tracks :
       (last_op.op = "skip" /\ current = c) ~> (current # c \/ voice.status = "playing")

\* C15: a seek never advances the queue: from the moment a seek has stopped
\* the stream until it restarts it, no step (the stopped stream's callback, a
\* scheduled play_next, a message) changes current_track or takes a track out
\* of the queue, and a completion callback that runs while is_seeking is set
\* schedules nothing.
C15_SeekKeepsCurrent ==
  /\ [][seeks # <<>>
          => /\ guild_state'.current_track = current
             /\ Len(guild_state.queue) <= Len(guild_state'.queue)
             /\ SubSeq(guild_state'.queue, 1, Len(guild_state.queue)) = guild_state.queue]_vars
  /\ [][(last_op'.op = "after_playing" /\ guild_state.is_seeking)
          => scheduled' = scheduled]_vars

\* C16: when a stream restarted by a seek reaches its end, its completion
\* callback leads to a run of play_next: the sought track stops being current
\* (the next queued track takes its place, or none on an empty queue).  (A
\* behaviour in which a later seek has the track playing again is not held
\* against the claim.)
C16_SoughtTrackAdvances ==
  \A c \in Tracks :
    (/\ last_op.op = "stream_end"
     /\ callbacks # <<>>
     /\ callbacks[Len(callbacks)] = "after_seeking"
     /\ current = c)
      ~> (current # c \/ voice.status = "playing")

C18_DownloadedAtMostOnce ==
  \A f \in Failures(<<>>), force_play \in BOOLEAN :
    \A c \in play_next(World, force_play, now, f[1], f[2]).downloaded :
      tracks[c].duration = 0

\* C19: whenever current_track has a local file, that file's path is in the
\* active-file set.
C19_CurrentFileIsActive ==
  (current # NoTrack /\ on_disk(World, tracks[current].downloaded_path))
    => tracks[current].downloaded_path \in active_files

\* C20: when the download of the track play_next pops raises, that track is
\* discarded (neither current nor queued, its path not in the active-file set)
\* and play_next runs again with the same force_play: the next queued track
\* that can be played becomes current and is started, under /play even with
\* autoplay disabled, and with nothing left the empty-queue policy applies.
C20_FailedDownloadSkips ==
  \A f \in Failures(<<>>), force_play \in BOOLEAN :
    LET q == guild_state.queue
        R == play_next(World, force_play, now, f[1], f[2])
    IN (/\ ~guild_state.is_seeking
        /\ ~guild_state.loop_enabled
        /\ is_connected(World)
        /\ ~is_playing(World)
        /\ force_play \/ settings.autoplay
        /\ q # <<>>
        /\ q[1] \in f[1])
       => /\ q[1] \in R.downloaded
          /\ ~referenced(R.gs, q[1])
          /\ PathOf(q[1]) \notin R.active
          /\ R.files[PathOf(q[1])] = NoFile
          /\ IF Len(q) >= 2 /\ q[2] \notin f[1] \cup f[2]
             THEN /\ R.gs.current_track = q[2]
                  /\ R.started = q[2]
                  /\ is_playing(R)
                  /\ R.gs.queue = SubSeq(q, 3, Len(q))
             ELSE Len(q) = 1
                    => /\ R.gs.current_track = NoTrack
                       /\ R.gs.queue = <<>>
                       /\ R.started = NoTrack
                       /\ R.disc = (IF settings.autodisconnect THEN 1 ELSE 0)

\* /play with autoplay disabled made two downloads: the first track's failed,
\* the second track plays
C20_Witness ==
  /\ last_op.op = "play"
  /\ last_op.arg = 2
  /\ ~settings.autoplay
  /\ current = 2
  /\ voice.status = "playing"
  /\ temp_files[PathOf(1)] = NoFile
  /\ temp_files[PathOf(2)] # NoFile

\* the GuildState of guild g, which has one
state(g) == objects[music_state.guild_states[g]]

\* a step leaves everything the bot holds for guild h as it was: its entries
\* in MusicState's dicts, its GuildState object, its tracks and their files,
\* its voice client and what is pending for it
Untouched(h) ==
  /\ music_state'.guild_states[h] = music_state.guild_states[h]
  /\ music_state'.alone_since[h] = music_state.alone_since[h]
  /\ music_state'.rate_limits[h] = music_state.rate_limits[h]
  /\ guilds'[h] = guilds[h]
  /\ music_state.guild_states[h] # NoState =>
       /\ objects'[music_state.guild_states[h]] = state(h)
       /\ \A c \in Tracks : referenced(state(h), c) =>
            /\ tracks'[c] = tracks[c]
            /\ temp_files'[PathOf(c)] = temp_files[PathOf(c)]
            /\ (PathOf(c) \in active_files') = (PathOf(c) \in active_files)

\* C21: play_next never lets an exception out: when a statement of it raises
\* an exception nothing expects, the call still returns normally, the guild's
\* current_track is None afterwards, and the state of every other guild is
\* as it was before the call.
C21_UnexpectedIsCaught ==
  [][\A g \in Guilds :
       (last_op'.op \in Faults /\ last_op'.arg = g) =>
         /\ last_op'.ok
         /\ objects'[music_state'.guild_states[g]].current_track = NoTrack
         /\ \A h \in Guilds \ {g} : Untouched(h)]_vars

\* an exception was caught in one guild, whose queue still holds a track,
\* while another guild is playing a track of its own
C21_Witness ==
  \E g \in Guilds : \E h \in Guilds \ {g} :
    /\ last_op.op \in Faults /\ last_op.arg = g /\ last_op.ok
    /\ state(g).current_track = NoTrack
    /\ state(g).queue # <<>>
    /\ music_state.guild_states[h] # NoState
    /\ state(h).current_track # NoTrack
    /\ guilds[h].voice.status = "playing"

\* an alone_since entry of guild g that a sweep at the present time takes up
alone_expired(g) ==
  /\ music_state.alone_since[g] # NoTime
  /\ now - music_state.alone_since[g] > alone_limit * TicksPerSecond

\* C25: a sweep iteration removes every alone_since entry older than five
\* minutes, whatever the outcome for its guild: the bot is still alone and is
\* disconnected, it is no longer alone, it has no voice client, or its
\* disconnect() fails.
C25_ExpiredEntryRemoved ==
  [][last_op'.op = "periodic_cleanup" =>
       \A g \in Guilds : alone_expired(g) => music_state'.alone_since[g] = NoTime]_vars

\* the GuildState of guild g is one a sweep at the present time takes for
\* inactive
inactive(g) ==
  /\ music_state.guild_states[g] # NoState
  /\ now - state(g).last_activity > inactive_limit * TicksPerSecond

C22_NoTransportNoStart ==
  [][\A g \in Guilds :
       (/\ last_op'.op = "play_next" /\ last_op'.arg = g
        /\ music_state.guild_states[g] # NoState
        /\ state(g).queue # <<>>
        /\ ~state(g).is_seeking
        /\ guilds[g].settings.autoplay
        /\ guilds[g].voice.status = "none") =>
         /\ music_state'.guild_states[g] = music_state.guild_states[g]
         /\ objects'[music_state.guild_states[g]].queue = loop_step(state(g)).queue
         /\ objects'[music_state.guild_states[g]].current_track = NoTrack
         /\ \A i \in 1..Len(state(g).queue) :
              /\ tracks'[state(g).queue[i]] = tracks[state(g).queue[i]]
              /\ temp_files'[PathOf(state(g).queue[i])] = temp_files[PathOf(state(g).queue[i])]
         /\ guilds'[g].voice = NoVoice
         /\ guilds'[g].callbacks = guilds[g].callbacks
         /\ guilds'[g].scheduled = guilds[g].scheduled - 1]_vars

\* play_next has just returned in a guild that has no voice client and a
\* track waiting in its queue, and nothing is pending for that guild
C22_Witness ==
  \E g \in Guilds :
    /\ last_op.op = "play_next" /\ last_op.arg = g
    /\ guilds[g].voice.status = "none"
    /\ music_state.guild_states[g] # NoState
    /\ state(g).queue # <<>>
    /\ state(g).current_track = NoTrack
    /\ guilds[g].scheduled = 0
    /\ guilds[g].callbacks = <<>>

SeekKinds == {"forward", "backward", "timestamp"}

\* C23: a /forward, /backward or /timestamp issued for a guild that has no
\* current track, or whose bot has no connected voice client, is rejected
\* and changes nothing: the queue, current_track and is_seeking are as
\* before, every track of the guild keeps its position and clock, and the
\* voice client, the callbacks and the suspended seeks are untouched.
C23_RejectedSeekIsNoOp ==
  [][\A g \in Guilds :
       (/\ last_op'.op \in SeekKinds /\ last_op'.arg = g
        /\ \/ music_state.guild_states[g] = NoState
           \/ state(g).current_track = NoTrack
           \/ guilds[g].voice.status = "none") =>
         /\ ~last_op'.ok
         /\ guilds'[g] = guilds[g]
         /\ LET old == IF music_state.guild_states[g] = NoState
                       THEN GuildState(now) ELSE state(g)
                new == objects'[music_state'.guild_states[g]]
            IN /\ new.queue = old.queue
               /\ new.current_track = old.current_track
               /\ new.is_seeking = old.is_seeking
               /\ \A c \in Tracks : referenced(old, c) => tracks'[c] = tracks[c]]_vars

\* a seek was rejected in a guild that still has a current track but whose
\* bot is in no voice channel any more
C23_Witness ==
  \E g \in Guilds :
    /\ last_op.op \in SeekKinds /\ last_op.arg = g /\ ~last_op.ok
    /\ guilds[g].voice.status = "none"
    /\ state(g).current_track # NoTrack
    /\ ~state(g).is_seeking

\* the loop configuration of a GuildState
loop_config(gs) == <<gs.loop_enabled, gs.loop_count, gs.max_loops>>

\* C24: /pause takes effect exactly when the voice client is playing, and
\* /resume exactly when it is paused.  An accepted command leaves the queue,
\* current_track, is_seeking and the loop configuration as they were; a
\* rejected one leaves the whole state of the bot as it was.
C24_PauseResumeFrame ==
  [][\A g \in Guilds :
       (last_op'.op \in {"pause", "resume"} /\ last_op'.arg = g) =>
         LET accepted == guilds[g].voice.status =
                           (IF last_op'.op = "pause" THEN "playing" ELSE "paused")
         IN IF accepted
            THEN /\ guilds'[g].voice.status =
                      (IF last_op'.op = "pause" THEN "paused" ELSE "playing")
                 /\ music_state'.guild_states[g] = music_state.guild_states[g]
                 /\ objects'[music_state.guild_states[g]].queue = state(g).queue
                 /\ objects'[music_state.guild_states[g]].current_track
                      = state(g).current_track
                 /\ objects'[music_state.guild_states[g]].is_seeking
                      = state(g).is_seeking
                 /\ loop_config(objects'[music_state.guild_states[g]])
                      = loop_config(state(g))
            ELSE UNCHANGED <<music_state, objects, guilds, tracks, temp_files,
                             active_files, last_cleanup, n_created, now>>]_vars

\* a pause was accepted while a seek was in progress, the loop was on and a
\* track was waiting in the queue
C24_Witness ==
  \E g \in Guilds :
    /\ last_op.op = "pause" /\ last_op.arg = g /\ last_op.ok
    /\ guilds[g].voice.status = "paused"
    /\ state(g).is_seeking
    /\ state(g).loop_enabled
    /\ state(g).queue # <<>>
    /\ state(g).current_track # NoTrack

\* C27: check_rate_limit(g) returns False exactly when the last call for g
\* that returned True was less than two seconds ago.  A call that returns
\* False leaves g's timestamp where it was, a call that returns True sets it
\* to the present time, and no call for g changes the entry of another
\* guild; the sweep's pruning of old entries does not alter any answer.
C27_RateLimit ==
  [][\A g \in Guilds :
       (last_op'.op = "check_rate_limit" /\ last_op'.arg = g) =>
         LET recent == /\ accepted_at[g] # NoTime
                       /\ now - accepted_at[g] < rate_limit_window * TicksPerSecond
         IN /\ last_op'.ok = ~recent
            /\ music_state'.rate_limits[g] =
                 (IF recent THEN music_state.rate_limits[g] ELSE now)
            /\ \A h \in Guilds \ {g} :
                 music_state'.rate_limits[h] = music_state.rate_limits[h]]_vars

\* an action of one guild was rejected a second and a half after its last
\* accepted one, at the very time an action of another guild was accepted
C27_Witness ==
  \E g \in Guilds : \E h \in Guilds \ {g} :
    /\ last_op.op = "check_rate_limit" /\ last_op.arg = g /\ ~last_op.ok
    /\ music_state.rate_limits[g] = now - 3
    /\ accepted_at[g] = now - 3
    /\ music_state.rate_limits[h] = now

\* what cleanup() is to leave of a track: no local file, position 0 and a
\* cleared playback clock
cleaned(tr) ==
  /\ tr.downloaded_path = NoPath
  /\ tr.position = 0
  /\ tr.playback_start_time = NoTime
  /\ tr.paused_position = 0
  /\ ~tr.is_paused

\* C28: after cleanup() a track has no local file, its position is 0 and
\* its playback clock is cleared, whether or not its file was still on disk.
\* The call looked at here is the one on_voice_state_update makes on the
\* current track once the bot has been alone for five minutes, after which
\* the guild state still refers to the track.
C28_CleanupResets ==
  [][\A g \in Guilds :
       (/\ last_op'.op = "waiter" /\ last_op'.arg = g /\ last_op'.ok
        /\ guilds[g].voice.status # "none"
        /\ guilds'[g].voice.status = "none"
        /\ music_state.guild_states[g] # NoState
        /\ state(g).current_track # NoTrack) =>
         cleaned(tracks'[state(g).current_track])]_vars

\* how many times a handler called start_playback on track c
anchors(R, c) == Cardinality({i \in DOMAIN R.anchored : R.anchored[i] = c})

\* the handler that left R started no stream, or it called start_playback
\* once on the track it started: the track is not paused, its clock is
\* anchored at the present time minus the offset, get_current_position()
\* returns the offset, and the stream that plays was built at that offset
anchored_start(R) ==
  R.started # NoTrack =>
    LET tr == R.tracks[R.started] IN
    /\ anchors(R, R.started) = 1
    /\ ~tr.is_paused
    /\ tr.playback_start_time = now - tr.position
    /\ get_current_position(tr, now) = tr.position
    /\ R.voice.status = "playing"
    /\ R.voice.left = stream_ticks(R, R.started, tr.position)

guild_fields(gs) ==
  <<gs.queue, gs.current_track, gs.volume, gs.is_seeking, loop_config(gs)>>

\* no two guilds have the same GuildState object, and no track is in the
\* queue or the current_track of two of them
unshared ==
  \A g \in Guilds : \A h \in Guilds \ {g} :
    (music_state.guild_states[g] # NoState /\ music_state.guild_states[h] # NoState) =>
      /\ music_state.guild_states[g] # music_state.guild_states[h]
      /\ \A c \in Tracks : ~(referenced(state(g), c) /\ referenced(state(h), c))

\* C30: a handler that runs for guild g (on_message, /play, play_next with
\* or without an exception, a completion callback, /skip, /pause, /resume,
\* /loop, /remove, /clear, /disconnect, /forward and its second half) leaves
\* the queue, current_track, volume, is_seeking and loop configuration of
\* every other guild as they were, and the guild states share neither an
\* object nor a track.
C30_GuildsIndependent ==
  [][/\ unshared'
     /\ \A g \in Guilds : \A h \in Guilds \ {g} :
          last_op'.arg = g =>
            /\ music_state'.guild_states[h] = music_state.guild_states[h]
            /\ music_state.guild_states[h] # NoState =>
                 guild_fields(objects'[music_state.guild_states[h]])
                   = guild_fields(state(h))]_vars

\* a command has just run for a guild that loops a track and seeks in it,
\* while another guild plays a track of its own with another in its queue
\* and does neither
C30_Witness ==
  \E g \in Guilds : \E h \in Guilds \ {g} :
    /\ last_op.arg = g
    /\ music_state.guild_states[g] # NoState
    /\ music_state.guild_states[h] # NoState
    /\ state(g).current_track # NoTrack
    /\ state(g).loop_enabled
    /\ state(g).is_seeking
    /\ state(h).current_track # NoTrack
    /\ state(h).current_track # state(g).current_track
    /\ ~state(h).loop_enabled
    /\ ~state(h).is_seeking
    /\ guilds[h].voice.status = "playing"

\* C37: /stop leaves the queue as it is. The completion callback of the
\* stopped stream (the only stream whose callback runs after its track has
\* been released) hands play_next to the event loop; that play_next neither
\* pops a queued track nor starts a stream.
C37_StopKeepsQueue ==
  [][(/\ last_op.op = "after_playing"
      /\ guild_state.current_track = NoTrack
      /\ guild_state.queue # <<>>
      /\ last_op'.op = "play_next")
     => /\ guild_state'.queue = guild_state.queue
        /\ guild_state'.current_track = NoTrack
        /\ voice'.status # "playing"]_vars

\* C39: an upload accepted while the guild's current track is playing or
\* paused only appends to the queue: the current track stays current, it is
\* not released (the AudioTrack keeps its file and its clock) and the voice
\* client keeps the stream it has.  Uploads are the steps that create tracks.
C39_UploadOnlyAppends ==
  [][\A g \in First :
       (/\ n_created' > n_created
        /\ music_state.guild_states[g] # NoState
        /\ state(g).current_track # NoTrack
        /\ guilds[g].voice.status \in {"playing", "paused"})
       => /\ music_state'.guild_states[g] = music_state.guild_states[g]
          /\ objects'[music_state.guild_states[g]].current_track
               = state(g).current_track
          /\ tracks'[state(g).current_track] = tracks[state(g).current_track]
          /\ guilds'[g].voice = guilds[g].voice
          /\ \E batch \in Batches :
               objects'[music_state.guild_states[g]].queue = state(g).queue \o batch]_vars

\* C38: the sweep leaves a guild alone whose current track is playing or
\* paused: it neither removes the guild's state nor disconnects its voice
\* client.
C38_SweepSparesActive ==
  [][\A g \in Guilds :
       (/\ last_op'.op = "periodic_cleanup"
        /\ music_state.guild_states[g] # NoState
        /\ state(g).current_track # NoTrack
        /\ guilds[g].voice.status \in {"playing", "paused"})
       => /\ music_state'.guild_states[g] = music_state.guild_states[g]
          /\ guilds'[g].voice = guilds[g].voice]_vars

\* C36: the waiter disconnects the bot only when the bot has been alone
\* without a break for the whole grace period.  The bot is alone since the
\* last leave of a user, and the handler of that leave is the last one that
\* went to sleep.
C36_AloneForWholeGrace ==
  [][\A g \in Guilds :
       (/\ last_op'.op = "waiter" /\ last_op'.arg = g
        /\ guilds[g].voice.status # "none"
        /\ guilds'[g].voice.status = "none")
       => now - guilds[g].waiters[Len(guilds[g].waiters)]
            >= alone_limit * TicksPerSecond]_vars

\* while the bot is out of the guild's voice channel, a play_next handed over
\* by a completion callback neither puts a track into the queue nor makes one
\* current
NothingComesBack ==
  [][\A g \in Guilds :
       (/\ guilds[g].voice.status = "none"
        /\ guilds'[g].scheduled < guilds[g].scheduled
        /\ music_state.guild_states[g] # NoState)
       => /\ objects'[music_state'.guild_states[g]].queue = state(g).queue
          /\ objects'[music_state'.guild_states[g]].current_track
               \in {NoTrack, state(g).current_track}]_<<music_state, objects, guilds>>

\* C32: when the bot leaves a guild's voice channel through /disconnect or
\* through the waiter, the guild is left with no current track and an empty
\* queue; and nothing comes back afterwards.
C32_LeftWithNothing ==
  /\ [][\A g \in Guilds :
          (/\ last_op'.op \in {"handler", "waiter"} /\ last_op'.arg = g
           /\ guilds[g].voice.status # "none"
           /\ guilds'[g].voice.status = "none")
          => /\ objects'[music_state'.guild_states[g]].current_track = NoTrack
             /\ objects'[music_state'.guild_states[g]].queue = <<>>]_<<music_state, objects, guilds>>
  /\ NothingComesBack

\* C33: is_seeking is set for as long as a seek handler is between its stop
\* and its restart, and for as long as a stream restarted by a seek is being
\* played.
C33_SeekingThroughout ==
  (\/ seeks # <<>>
   \/ (voice.status \in {"playing", "paused"} /\ voice.after = "after_seeking"))
    => guild_state.is_seeking

C35_QueueWithinLimits ==
  /\ Len(guild_state.queue) <= max_tracks
  /\ get_queue_size(guild_state.queue) <= max_queue_size

\* C40: while a guild's voice client goes on streaming its current track, no
\* step removes or rewrites the file that track is streamed from.
C40_StreamedFileKept ==
  [][\A g \in Guilds :
       (/\ music_state.guild_states[g] # NoState
        /\ music_state'.guild_states[g] = music_state.guild_states[g]
        /\ guilds[g].voice.status = "playing"
        /\ guilds'[g].voice = guilds[g].voice
        /\ state(g).current_track # NoTrack
        /\ objects'[music_state.guild_states[g]].current_track = state(g).current_track)
       => temp_files'[tracks[state(g).current_track].downloaded_path]
            = temp_files[tracks[state(g).current_track].downloaded_path]]_<<temp_files>>

\* ------------------------------------------- play_next calls that overlap
\* the play_next calls suspended in a download, in the order they began:
\* the track each downloads and the force_play it was called with
Suspended(R, force_play) ==
  IF R.downloaded = {} THEN <<>>
  ELSE <<[track |-> CHOOSE c \in R.downloaded : TRUE, force_play |-> force_play]>>

\* a track a suspended call downloads is still referenced by that call
kept(R, ds) ==
  [c \in Tracks |-> IF referenced(R.gs, c) \/ \E i \in 1..Len(ds) : ds[i].track = c
                    THEN R.tracks[c] ELSE NewTrack]

\* the result of a handler whose play_next may be suspended becomes the state
ApplyAwaiting(R, ds) ==
  /\ Len(ds) <= MaxDownloads
  /\ Applied(R)
  /\ tracks' = kept(R, ds)
  /\ downloads' = ds
  /\ UNCHANGED <<music_state, objects, guilds, accepted_at>>

\* on_message, its play_next running up to the download
UploadAwaits(batch) ==
  /\ n_created + Len(batch) <= NumTracks
  /\ LET ok == can_add_to_queue(guild_state.queue,
                                total_size({batch[i] : i \in 1..Len(batch)}))
         R == IF on_message_plays(World, batch)
              THEN play_next_awaits(enqueue(World, batch), FALSE, now)
              ELSE enqueue(World, batch)
     IN /\ ApplyAwaiting(R, downloads \o Suspended(R, FALSE))
        /\ n_created' = IF ok THEN n_created + Len(batch) ELSE n_created
        /\ last_op' = Op("on_message", Len(batch), ok)
  /\ UNCHANGED <<scheduled, seeks, now>>

\* the play_next after_playing scheduled, running up to the download
ScheduledAwaits ==
  /\ scheduled > 0
  /\ scheduled' = scheduled - 1
  /\ LET R == play_next_awaits(World, FALSE, now) IN
       /\ ApplyAwaiting(R, downloads \o Suspended(R, FALSE))
       /\ last_op' = Op("play_next", R.disc, ~guild_state.is_seeking)
  /\ UNCHANGED <<n_created, seeks, now>>

\* the download of the i-th suspended call ends well: the file is written,
\* the metadata read, and play_next goes on from the statement after the await
DownloadEnds(i) ==
  LET c == downloads[i].track
      rest == SubSeq(downloads, 1, i - 1) \o SubSeq(downloads, i + 1, Len(downloads))
      W == [World EXCEPT !.files[World.paths[c]] = now,
                         !.tracks[c].duration = FileDuration(c)]
      R == play_next_resumes(W, downloads[i].force_play, now)
  IN /\ ApplyAwaiting(R, rest \o Suspended(R, downloads[i].force_play))
     /\ last_op' = Op("download", c, TRUE)
     /\ UNCHANGED <<n_created, scheduled, seeks, now>>

\* uploads of one attachment each, the downloads, the callbacks and the clock
OverlapNext ==
  \/ (\E a \in Batches : Len(a) = 1 /\ UploadAwaits(a)) /\ Counted
  \/ ScheduledAwaits /\ Counted
  \/ (\E i \in 1..Len(downloads) : DownloadEnds(i)) /\ Counted
  \/ RunCallback /\ Counted
  \/ StreamEnd /\ Counted
  \/ Tick /\ Counted

SpecOverlap == InitAutoplay /\ [][OverlapNext]_vars

\* C31: overlapping play_next calls lose no track.  No download and no
\* decode fails here, so a track taken from the queue that no stream was
\* ever started for stays the current track until its stream starts: it
\* may be given up only by the call that finds the voice client playing
\* or gone.
C31_NoTrackDropped ==
  [][\A c \in Tracks :
       (/\ guild_state.current_track = c
        /\ plays[c] = 0
        /\ voice.status = "idle")
       => \/ guild_state'.current_track = c
          \/ \E i \in 1..Len(guild_state'.queue) : guild_state'.queue[i] = c
    ]_<<guild_state, voice, plays>>

====
